---- MODULE Spec2Model ----
(***************************************************************************)
(* A model of the AI enrichment pipeline of the CSV/Excel URL finder       *)
(* (src/index.tsx): the React state of the App component, the asynchronous *)
(* handlers that run against the generation service, and the pure helpers  *)
(* they use.                                                               *)
(*                                                                         *)
(* Conventions                                                             *)
(*  - A table is a sequence of rows, a row a sequence of string cells.     *)
(*    JavaScript indices are 0-based: Cell(row, k) reads row[k].           *)
(*  - A handler is cut at its awaits.  One action is the code that runs    *)
(*    from one await to the next; a process whose pc is "loop" is inside a *)
(*    synchronous stretch and nothing else may run until it yields.        *)
(*  - A handler reads React state through the closure of the render in     *)
(*    which it was started; functional updaters (setX(prev => ...)) read   *)
(*    the live state.  The closure values a handler reads later are kept   *)
(*    in its record (closure...).                                          *)
(*  - Money is counted in units of 1e-8 USD so that prices per million     *)
(*    tokens stay integers: a price of 0.15 USD per million tokens is 15   *)
(*    units per token.                                                     *)
(***************************************************************************)
EXTENDS Integers, Sequences, FiniteSets, TLC

(***************************************************************************)
(* Bounds of the model                                                     *)
(***************************************************************************)
\* user-triggered operations (clicks, file selections) per session
MaxOps == 3
\* data rows of the largest file
MaxRows == 22
\* failed answers of the generation service per session
MaxServiceFailures == 4
\* clicks in the test section per session, when the test section is taken alone
MaxTestOps == 5
\* data rows of a table given to cleanAiNotFoundResponses on its own
MaxCleanerRows == 2
\* pieces of a response text given to the response parsing on its own
MaxTextPieces == 5
\* data rows of the tables handed to the merge of duplicates
MaxMergeRows == 3
\* data rows of the tables handed to the URL run of test_runner_step5
MaxStep5Rows == 3

(***************************************************************************)
(* Program constants                                                       *)
(***************************************************************************)
BATCH_SIZE == 20
MAX_RETRIES == 3
MAX_PRO_RETRIES == 1
TEST_DATA_ROW_COUNT == 100
DESCRIPTION_COL_INDEX == 63
\* prices in hundredths of a USD per million tokens (= units per token)
FLASH_PRICE_INPUT_PER_MILLION_TOKENS == 15
FLASH_PRICE_OUTPUT_THINKING_PER_MILLION_TOKENS == 350
PRO_PRICE_INPUT_PER_MILLION_TOKENS == 125
PRO_PRICE_OUTPUT_PER_MILLION_TOKENS == 1000
\* USD per thousand requests
FLASH_PRICE_GROUNDING_PER_THOUSAND_REQUESTS_AFTER_FREE_TIER == 35
FLASH_FREE_GROUNDING_REQUESTS_PER_DAY == 1500

(***************************************************************************)
(* Strings as character sequences                                          *)
(***************************************************************************)
UpperCaseLetters ==
  <<"A","B","C","D","E","F","G","H","I","J","K","L","M",
    "N","O","P","Q","R","S","T","U","V","W","X","Y","Z">>
LowerCaseLetters ==
  <<"a","b","c","d","e","f","g","h","i","j","k","l","m",
    "n","o","p","q","r","s","t","u","v","w","x","y","z">>
WhiteSpace == {" ", "\t", "\n", "\r"}

ToLowerChar(c) ==
  IF \E k \in 1..26 : UpperCaseLetters[k] = c
    THEN LowerCaseLetters[CHOOSE k \in 1..26 : UpperCaseLetters[k] = c]
    ELSE c

ToLowerCase(s) == [k \in 1..Len(s) |-> ToLowerChar(s[k])]

RECURSIVE TrimStart(_)
TrimStart(s) ==
  IF s # <<>> /\ Head(s) \in WhiteSpace THEN TrimStart(Tail(s)) ELSE s

RECURSIVE TrimEnd(_)
TrimEnd(s) ==
  IF s # <<>> /\ s[Len(s)] \in WhiteSpace
    THEN TrimEnd(SubSeq(s, 1, Len(s) - 1)) ELSE s

Trim(s) == TrimEnd(TrimStart(s))

StartsWith(s, p) == Len(p) <= Len(s) /\ SubSeq(s, 1, Len(p)) = p
EndsWith(s, p) == Len(p) <= Len(s) /\ SubSeq(s, Len(s) - Len(p) + 1, Len(s)) = p
Includes(s, c) == \E k \in 1..Len(s) : s[k] = c

\* the string with the given characters
RECURSIVE JoinChars(_)
JoinChars(chars) == IF chars = <<>> THEN "" ELSE Head(chars) \o JoinChars(Tail(chars))

\* URL cell values, put together from optional white space around, a scheme,
\* a leading www., a body and trailing slashes
UrlPads == {<<>>, <<" ">>}
UrlSchemes ==
  {<<>>, <<"h","t","t","p",":","/","/">>, <<"h","t","t","p","s",":","/","/">>,
   <<"H","T","T","P",":","/","/">>}
UrlWwws == {<<>>, <<"w","w","w",".">>}
UrlBodies ==
  {<<>>,
   <<"g","m","a","i","l",".","c","o","m">>,
   <<"G","m","a","i","l",".","C","o","m">>,
   <<"e","x","a","m","p","l","e",".","c","o","m">>,
   <<"u","s","e","r","@","g","m","a","i","l",".","c","o","m">>,
   <<"u","s","e","r","@","e","x","a","m","p","l","e",".","c","o","m">>,
   <<"l","o","c","a","l","h","o","s","t">>}
UrlSlashes == {<<>>, <<"/">>, <<"/","/">>}

UrlCharSeqs ==
  {pad \o scheme \o www \o body \o slash \o pad :
     pad \in UrlPads, scheme \in UrlSchemes, www \in UrlWwws,
     body \in UrlBodies, slash \in UrlSlashes}

UrlCharTable ==
  [str \in {JoinChars(chars) : chars \in UrlCharSeqs} |->
     CHOOSE chars \in UrlCharSeqs : JoinChars(chars) = str]

\* the cell values whose characters the program inspects
CharTable ==
  ( "" :> <<>> ) @@
  ( "good.com" :> <<"g","o","o","d",".","c","o","m">> ) @@
  ( "gmail.com" :> <<"g","m","a","i","l",".","c","o","m">> ) @@
  ( "a.com" :> <<"a",".","c","o","m">> ) @@
  ( "N/A" :> <<"N","/","A">> ) @@
  ( "A" :> <<"A">> ) @@
  ( "B" :> <<"B">> ) @@
  ( "A1" :> <<"A","1">> ) @@
  ( "a1" :> <<"a","1">> ) @@
  ( "B2" :> <<"B","2">> ) @@
  ( "a1.com" :> <<"a","1",".","c","o","m">> ) @@
  ( "ZZ" :> <<"Z","Z">> ) @@
  ( "a" :> <<"a">> ) @@
  ( "1" :> <<"1">> ) @@
  ( "2" :> <<"2">> ) @@
  ( "3" :> <<"3">> ) @@
  ( "4" :> <<"4">> ) @@
  ( "Website URL" :> <<"W","e","b","s","i","t","e"," ","U","R","L">> ) @@
  ( "x@a.com" :> <<"x","@","a",".","c","o","m">> ) @@
  ( "y@a.com" :> <<"y","@","a",".","c","o","m">> ) @@
  ( "Accounts::::A" :> <<"A","c","c","o","u","n","t","s",":",":",":",":","A">> ) @@
  ( "Accounts::::B" :> <<"A","c","c","o","u","n","t","s",":",":",":",":","B">> ) @@
  ( "Insufficient specific information available on the website to generate a detailed analytical profile for referral matchmaking." :>
      <<"I","n","s","u","f","f","i","c","i","e","n","t"," ","s","p","e","c","i","f","i","c"," ","i","n","f","o","r","m","a","t","i","o","n"," ","a","v","a","i","l","a","b","l","e"," ","o","n"," ","t","h","e"," ","w","e","b","s","i","t","e"," ","t","o"," ","g","e","n","e","r","a","t","e"," ","a"," ","d","e","t","a","i","l","e","d"," ","a","n","a","l","y","t","i","c","a","l"," ","p","r","o","f","i","l","e"," ","f","o","r"," ","r","e","f","e","r","r","a","l"," ","m","a","t","c","h","m","a","k","i","n","g",".">> )

CharsOf(str) == IF str \in DOMAIN CharTable THEN CharTable[str] ELSE UrlCharTable[str]

\* the cell value that has the given characters
StringOf(chars) ==
  IF \E str \in DOMAIN CharTable : CharTable[str] = chars
    THEN CHOOSE str \in DOMAIN CharTable : CharTable[str] = chars
    ELSE CHOOSE str \in DOMAIN UrlCharTable : UrlCharTable[str] = chars

GENERIC_EMAIL_DOMAINS ==
  << <<"g","m","a","i","l",".","c","o","m">>,
     <<"y","a","h","o","o",".","c","o","m">>,
     <<"o","u","t","l","o","o","k",".","c","o","m">>,
     <<"a","o","l",".","c","o","m">>,
     <<"h","o","t","m","a","i","l",".","c","o","m">>,
     <<"i","c","l","o","u","d",".","c","o","m">>,
     <<"l","i","v","e",".","c","o","m">>,
     <<"m","s","n",".","c","o","m">>,
     <<"p","r","o","t","o","n","m","a","i","l",".","c","o","m">>,
     <<"z","o","h","o",".","c","o","m">>,
     <<"g","m","x",".","c","o","m">>,
     <<"m","a","i","l",".","c","o","m">>,
     <<"y","a","n","d","e","x",".","c","o","m">>,
     <<"c","o","m","c","a","s","t",".","n","e","t">>,
     <<"v","e","r","i","z","o","n",".","n","e","t">>,
     <<"a","t","t",".","n","e","t">>,
     <<"s","b","c","g","l","o","b","a","l",".","n","e","t">>,
     <<"b","e","l","l","s","o","u","t","h",".","n","e","t">>,
     <<"c","o","x",".","n","e","t">>,
     <<"c","h","a","r","t","e","r",".","n","e","t">> >>

notFoundPlaceholders ==
  << <<"u","r","l","_","n","o","t","_","f","o","u","n","d">>,
     <<"n","o"," ","o","f","f","i","c","i","a","l"," ","w","e","b","s","i","t","e"," ","f","o","u","n","d">>,
     <<"n","o","t"," ","f","o","u","n","d">>,
     <<"n","/","a">>,
     <<"n","u","l","l">>,
     <<"u","n","d","e","f","i","n","e","d">>,
     <<"i","n","s","u","f","f","i","c","i","e","n","t"," ","s","p","e","c","i","f","i","c"," ","i","n","f","o","r","m","a","t","i","o","n"," ","a","v","a","i","l","a","b","l","e"," ","o","n"," ","t","h","e"," ","w","e","b","s","i","t","e"," ","t","o"," ","g","e","n","e","r","a","t","e"," ","a"," ","d","e","t","a","i","l","e","d"," ","a","n","a","l","y","t","i","c","a","l"," ","p","r","o","f","i","l","e"," ","f","o","r"," ","r","e","f","e","r","r","a","l"," ","m","a","t","c","h","m","a","k","i","n","g",".">> >>

(***************************************************************************)
(* Pure helpers of src/index.tsx                                           *)
(***************************************************************************)
\* String(row[k] ?? ''): a missing cell reads as the empty string
Cell(row, k) == IF k + 1 <= Len(row) THEN row[k + 1] ELSE ""

\* rows.map(r => r.map(cell => String(cell ?? ''))): cells are strings already
StringifyRows(rows) == [k \in 1..Len(rows) |-> [c \in 1..Len(rows[k]) |-> rows[k][c]]]

normalizeUrlForComparison(url) ==
  LET n0 == ToLowerCase(Trim(url))
      http == <<"h","t","t","p",":","/","/">>
      https == <<"h","t","t","p","s",":","/","/">>
      www == <<"w","w","w",".">>
      n1 == IF StartsWith(n0, http) THEN SubSeq(n0, 8, Len(n0))
            ELSE IF StartsWith(n0, https) THEN SubSeq(n0, 9, Len(n0))
            ELSE n0
      n2 == IF StartsWith(n1, www) THEN SubSeq(n1, 5, Len(n1)) ELSE n1
  IN  IF EndsWith(n2, <<"/">>) THEN SubSeq(n2, 1, Len(n2) - 1) ELSE n2

\* a variant that compares the trimmed string itself with the generic domains
isPlausibleWithoutNormalizing(url) ==
  LET trimmedUrl == Trim(url)
  IN  /\ trimmedUrl # <<>>
      /\ Includes(trimmedUrl, ".")
      /\ ~(Includes(trimmedUrl, "@")
             /\ \E d \in 1..Len(GENERIC_EMAIL_DOMAINS) :
                   EndsWith(trimmedUrl, GENERIC_EMAIL_DOMAINS[d]))
      /\ ~\E d \in 1..Len(GENERIC_EMAIL_DOMAINS) : trimmedUrl = GENERIC_EMAIL_DOMAINS[d]

isPlausibleChars(url) ==
  LET trimmedUrl == Trim(url)
  IN  IF trimmedUrl = <<>> THEN FALSE
      ELSE IF ~Includes(trimmedUrl, ".") THEN FALSE
      ELSE IF Includes(trimmedUrl, "@")
              /\ \E d \in 1..Len(GENERIC_EMAIL_DOMAINS) :
                    EndsWith(trimmedUrl, GENERIC_EMAIL_DOMAINS[d]) THEN FALSE
      ELSE IF \E d \in 1..Len(GENERIC_EMAIL_DOMAINS) :
                    normalizeUrlForComparison(trimmedUrl) = GENERIC_EMAIL_DOMAINS[d] THEN FALSE
      ELSE TRUE

\* isPlausibleChars on every cell value of the model, evaluated once
PlausibleCells ==
  {str \in DOMAIN CharTable \cup DOMAIN UrlCharTable : isPlausibleChars(CharsOf(str))}

isPlausibleUrl(url) == url \in PlausibleCells

\* cellValue.trim() !== '' && notFoundPlaceholders.includes(cellValue.trim().toLowerCase())
isNotFoundChars(cellValue) ==
  /\ Trim(cellValue) # <<>>
  /\ \E p \in 1..Len(notFoundPlaceholders) :
        notFoundPlaceholders[p] = ToLowerCase(Trim(cellValue))

\* isNotFoundChars on every cell value of the model, evaluated once
NotFoundCells ==
  {str \in DOMAIN CharTable \cup DOMAIN UrlCharTable : isNotFoundChars(CharsOf(str))}

\* a variant in which the placeholder cell is removed from the row
RemoveNotFoundCell(row) ==
  IF Len(row) > 2 /\ row[3] \in NotFoundCells
    THEN SubSeq(row, 1, 2) \o SubSeq(row, 4, Len(row))
    ELSE row

\* the rewrite of one data row: only cell 2, only on an exact placeholder
CleanRow(row) ==
  IF Len(row) > 2 /\ row[3] \in NotFoundCells
    THEN [row EXCEPT ![3] = ""]
    ELSE row

cleanAiNotFoundResponses(data) ==
  IF Len(data) = 0 THEN data
  ELSE [k \in 1..Len(data) |-> IF k = 1 THEN data[k] ELSE CleanRow(data[k])]

calculateOperationCost(inputTokens, outputTokens, apiRequests, modelType) ==
  LET inputCost == IF modelType = "flash"
                     THEN inputTokens * FLASH_PRICE_INPUT_PER_MILLION_TOKENS
                   ELSE IF modelType = "pro"
                     THEN inputTokens * PRO_PRICE_INPUT_PER_MILLION_TOKENS
                   ELSE 0
      outputCost == IF modelType = "flash"
                      THEN outputTokens * FLASH_PRICE_OUTPUT_THINKING_PER_MILLION_TOKENS
                    ELSE IF modelType = "pro"
                      THEN outputTokens * PRO_PRICE_OUTPUT_PER_MILLION_TOKENS
                    ELSE 0
  IN  inputCost + outputCost

\* (n / 1000) * price USD, in units of 1e-8 USD
GroundingCostOf(billableRequests) ==
  billableRequests * FLASH_PRICE_GROUNDING_PER_THOUSAND_REQUESTS_AFTER_FREE_TIER * 100000

\* the updater passed to setEstimatedCost by recalculateCumulativeSessionCost:
\* it ignores the value it is given and returns the closure's estimatedCost
\* plus the grounding cost of the closure's totalApiRequestsMade
recalculateCumulativeSessionCost(prev, closureEstimatedCost, closureTotalApiRequestsMade) ==
  LET groundingCost ==
        IF closureTotalApiRequestsMade > FLASH_FREE_GROUNDING_REQUESTS_PER_DAY
          THEN GroundingCostOf(closureTotalApiRequestsMade - FLASH_FREE_GROUNDING_REQUESTS_PER_DAY)
          ELSE 0
  IN  closureEstimatedCost + groundingCost


(***************************************************************************)
(* The pure helpers of the test section and of the file load               *)
(***************************************************************************)
\* while (row.length < n) row.push('')
PadRow(row, n) ==
  [c \in 1..(IF Len(row) < n THEN n ELSE Len(row)) |-> IF c <= Len(row) THEN row[c] ELSE ""]

\* String(row[k] ?? '').trim(), as characters
TrimmedCell(row, k) == Trim(CharsOf(Cell(row, k)))

\* email.lastIndexOf('@'), 1-based, 0 when there is none
LastIndexOfAt(email) ==
  IF Includes(email, "@")
    THEN CHOOSE k \in 1..Len(email) :
           email[k] = "@" /\ \A m \in (k + 1)..Len(email) : email[m] # "@"
    ELSE 0

\* the lower-cased text after the last '@'; null (no characters) when the
\* email is empty, has no '@' or ends with it
extractDomainFromEmail(email) ==
  IF email = <<>> \/ LastIndexOfAt(email) = 0 \/ LastIndexOfAt(email) = Len(email)
    THEN <<>>
    ELSE ToLowerCase(SubSeq(email, LastIndexOfAt(email) + 1, Len(email)))

IsGenericDomain(domain) ==
  \E d \in 1..Len(GENERIC_EMAIL_DOMAINS) : GENERIC_EMAIL_DOMAINS[d] = domain

AccountsPrefix == <<"a","c","c","o","u","n","t","s",":",":",":",":">>

\* the organization name of an account cell "Accounts::::<name>", no
\* characters when the cell has no such prefix
OrgNameOfAccountCell(accountCell) ==
  IF StartsWith(ToLowerCase(accountCell), AccountsPrefix)
    THEN Trim(SubSeq(accountCell, Len(AccountsPrefix) + 1, Len(accountCell)))
    ELSE <<>>

\* pass 1 of the correction: the contact row contributes its domain to the map
ContributesDomain(contactRow) ==
  /\ TrimmedCell(contactRow, 3) # <<>>
  /\ TrimmedCell(contactRow, 9) # <<>>
  /\ extractDomainFromEmail(TrimmedCell(contactRow, 3)) # <<>>
  /\ ~IsGenericDomain(extractDomainFromEmail(TrimmedCell(contactRow, 3)))
  /\ OrgNameOfAccountCell(TrimmedCell(contactRow, 9)) # <<>>

correctContactSheetAccountAssignments(originalContactsData) ==
  IF Len(originalContactsData) < 2 THEN StringifyRows(originalContactsData)
  ELSE
    LET contactsBody == Tail(StringifyRows(originalContactsData))
        DomainOf(k) == extractDomainFromEmail(TrimmedCell(contactsBody[k], 3))
        \* the rows that set a map entry: the first row of each domain
        Setters == {k \in 1..Len(contactsBody) :
                      /\ ContributesDomain(contactsBody[k])
                      /\ \A j \in 1..(k - 1) :
                           ~(ContributesDomain(contactsBody[j]) /\ DomainOf(j) = DomainOf(k))}
        Has(domain) == \E k \in Setters : DomainOf(k) = domain
        Get(domain) ==
          OrgNameOfAccountCell(
            TrimmedCell(contactsBody[CHOOSE k \in Setters : DomainOf(k) = domain], 9))
        Corrected(row) ==
          LET email == TrimmedCell(row, 3)
              domain == extractDomainFromEmail(email)
              expectedAccountCellValue ==
                <<"A","c","c","o","u","n","t","s",":",":",":",":">> \o Get(domain)
          IN  IF email # <<>> /\ domain # <<>> /\ Has(domain)
                THEN IF ToLowerCase(TrimmedCell(row, 9)) # ToLowerCase(expectedAccountCellValue)
                       THEN [PadRow(row, 10) EXCEPT ![10] = StringOf(expectedAccountCellValue)]
                       ELSE PadRow(row, 10)
                ELSE row
    IN  <<StringifyRows(originalContactsData)[1]>>
          \o [k \in 1..Len(contactsBody) |-> Corrected(contactsBody[k])]

\* the domain a contact row offers to the organization of the given
\* lower-cased name, no characters when it offers none
OfferedDomain(contactRow, orgName) ==
  LET accountCell == TrimmedCell(contactRow, 9)
      email == TrimmedCell(contactRow, 3)
      domain == extractDomainFromEmail(email)
  IN  IF /\ accountCell # <<>>
         /\ StartsWith(ToLowerCase(accountCell), AccountsPrefix)
         /\ ToLowerCase(Trim(SubSeq(accountCell, Len(AccountsPrefix) + 1,
                                    Len(accountCell)))) = orgName
         /\ email # <<>>
         /\ domain # <<>>
         /\ ~IsGenericDomain(domain)
        THEN domain
        ELSE <<>>

\* updatedOrgsData of prefillUrlsFromContacts
prefillUrlsFromContacts(orgsData, contactsData) ==
  LET copy == StringifyRows(orgsData)
      header == IF Trim(CharsOf(Cell(copy[1], 2))) = <<>>
                  THEN [PadRow(copy[1], 3) EXCEPT ![3] = "Website URL"]
                  ELSE PadRow(copy[1], 3)
      contacts == Tail(contactsData)
      Prefilled(orgRow) ==
        LET orgName == ToLowerCase(TrimmedCell(orgRow, 0))
            existingUrlDomain == normalizeUrlForComparison(CharsOf(Cell(orgRow, 2)))
            offering == {k \in 1..Len(contacts) : OfferedDomain(contacts[k], orgName) # <<>>}
        IN  IF orgName = <<>> THEN orgRow
            ELSE IF /\ isPlausibleUrl(Cell(orgRow, 2))
                    /\ existingUrlDomain # <<>>
                    /\ ~\E d \in 1..Len(GENERIC_EMAIL_DOMAINS) :
                           EndsWith(existingUrlDomain, GENERIC_EMAIL_DOMAINS[d])
              THEN PadRow(orgRow, 3)
            ELSE IF offering = {} THEN PadRow(orgRow, 3)
            ELSE [PadRow(orgRow, 3) EXCEPT
                    ![3] = StringOf(OfferedDomain(
                             contacts[CHOOSE k \in offering : \A m \in offering : k <= m],
                             orgName))]
  IN  IF Len(copy) = 0 THEN copy
      ELSE <<header>> \o [k \in 1..(Len(copy) - 1) |-> Prefilled(copy[k + 1])]

placeholderText == notFoundPlaceholders[7]

\* cleanedData of performPlaceholderDescRowDeletionLogic
performPlaceholderDescRowDeletionLogic(inputData) ==
  IF Len(inputData) < 2 THEN StringifyRows(inputData)
  ELSE
    LET Kept(row) ==
          \/ TrimmedCell(row, 0) = <<>>
          \/ ToLowerCase(TrimmedCell(row, DESCRIPTION_COL_INDEX)) # placeholderText
    IN  <<StringifyRows(inputData)[1]>> \o SelectSeq(Tail(StringifyRows(inputData)), Kept)

\* cleanedData of performMostlyEmptyRowsLogic
performMostlyEmptyRowsLogic(inputData) ==
  IF Len(inputData) < 2 THEN StringifyRows(inputData)
  ELSE
    LET Kept(row) ==
          \/ TrimmedCell(row, 0) = <<>>
          \/ \E i \in 0..(Len(row) - 1) :
               i \notin {0, DESCRIPTION_COL_INDEX} /\ TrimmedCell(row, i) # <<>>
    IN  <<StringifyRows(inputData)[1]>> \o SelectSeq(Tail(StringifyRows(inputData)), Kept)

\* the best URL of a group, folded over its rows from row k on
RECURSIVE BestUrlFrom(_, _, _, _, _)
BestUrlFrom(group, k, bestRawUrl, longestUrlLength, hasPlausibleUrl) ==
  IF k > Len(group) THEN bestRawUrl
  ELSE
    LET currentRawUrlString == TrimmedCell(group[k], 2)
    IN  IF isPlausibleChars(currentRawUrlString)
          THEN IF Len(currentRawUrlString) > longestUrlLength
                 THEN BestUrlFrom(group, k + 1, currentRawUrlString,
                                  Len(currentRawUrlString), TRUE)
                 ELSE BestUrlFrom(group, k + 1, bestRawUrl, longestUrlLength, TRUE)
        ELSE IF ~hasPlausibleUrl /\ Len(currentRawUrlString) > longestUrlLength
          THEN BestUrlFrom(group, k + 1, currentRawUrlString,
                           Len(currentRawUrlString), hasPlausibleUrl)
        ELSE BestUrlFrom(group, k + 1, bestRawUrl, longestUrlLength, hasPlausibleUrl)

\* the best description of a group, folded over its rows from row k on
RECURSIVE BestDescriptionFrom(_, _, _, _)
BestDescriptionFrom(group, k, bestDescription, longestDescLength) ==
  IF k > Len(group) THEN bestDescription
  ELSE
    LET currentDesc == TrimmedCell(group[k], DESCRIPTION_COL_INDEX)
    IN  IF Len(currentDesc) > longestDescLength
          THEN BestDescriptionFrom(group, k + 1, currentDesc, Len(currentDesc))
          ELSE BestDescriptionFrom(group, k + 1, bestDescription, longestDescLength)

\* the row that stands for a group of rows of one organization
MergedRow(group, headerLength) ==
  IF Len(group) = 1 THEN group[1]
  ELSE
    LET bestRawUrl == BestUrlFrom(group, 1, <<>>, -1, FALSE)
        bestDescription == BestDescriptionFrom(group, 1, <<>>, -1)
        withDescription ==
          {k \in 1..Len(group) :
             TrimmedCell(group[k], DESCRIPTION_COL_INDEX) = bestDescription}
        withUrl == {k \in 1..Len(group) : TrimmedCell(group[k], 2) = bestRawUrl}
        First(set) == CHOOSE k \in set : \A m \in set : k <= m
        representativeRowData ==
          IF bestDescription # <<>> /\ withDescription # {}
            THEN group[First(withDescription)]
          ELSE IF bestRawUrl # <<>> /\ withUrl # {} THEN group[First(withUrl)]
          ELSE group[1]
        requiredLength ==
          IF headerLength > DESCRIPTION_COL_INDEX + 1 THEN headerLength
          ELSE DESCRIPTION_COL_INDEX + 1
    IN  [PadRow(representativeRowData, requiredLength) EXCEPT
           ![1] = StringOf(TrimmedCell(group[1], 0)),
           ![3] = StringOf(bestRawUrl),
           ![DESCRIPTION_COL_INDEX + 1] = StringOf(bestDescription)]

\* mergedData of performMergeDuplicatesLogic
performMergeDuplicatesLogic(inputData) ==
  IF Len(inputData) < 2 THEN StringifyRows(inputData)
  ELSE
    LET headerRowOriginal == StringifyRows(inputData)[1]
        dataRows == Tail(StringifyRows(inputData))
        KeyOf(row) == ToLowerCase(TrimmedCell(row, 0))
        \* the rows that open a group, in the order of the Map's keys
        Opens(k) == /\ KeyOf(dataRows[k]) # <<>>
                    /\ \A j \in 1..(k - 1) : KeyOf(dataRows[j]) # KeyOf(dataRows[k])
        openers == SelectSeq([k \in 1..Len(dataRows) |-> k], Opens)
        GroupOf(k) ==
          LET SameKey(row) == KeyOf(row) = KeyOf(dataRows[k])
          IN  SelectSeq(dataRows, SameKey)
        finalMergedDataRows ==
          [g \in 1..Len(openers) |-> MergedRow(GroupOf(openers[g]), Len(headerRowOriginal))]
        lengths == {Len(headerRowOriginal)}
                     \cup {Len(finalMergedDataRows[g]) : g \in 1..Len(finalMergedDataRows)}
        maxCols == CHOOSE n \in lengths : \A m \in lengths : m <= n
    IN  <<PadRow(headerRowOriginal, maxCols)>>
          \o [g \in 1..Len(finalMergedDataRows) |-> PadRow(finalMergedDataRows[g], maxCols)]

(***************************************************************************)
(* Input universes                                                         *)
(***************************************************************************)
HeaderRow == <<"Organization Name", "Id", "Website URL">>

\* a row that needs neither a URL lookup nor a dossier (no name)
Filler(j) == <<"", ToString(j), "good.com">>

TableHeaderOnly == <<HeaderRow>>
\* one short row: named, no URL cell at all
TableSingle == <<HeaderRow, <<"A">>>>
\* one batch, a row to look up before a row that is fine
TableMixed == <<HeaderRow, <<"A", "1", "gmail.com">>, <<"B", "2", "good.com">>>>
\* a first batch that needs no call, a second one that does
TableSecondBatch ==
  <<HeaderRow>> \o [j \in 1..(BATCH_SIZE + 1) |->
                      IF j = BATCH_SIZE + 1 THEN <<"", ToString(j), "">> ELSE Filler(j)]
\* two batches that both need a call, lookups between rows that are fine
TableTwoBatches ==
  <<HeaderRow>> \o [j \in 1..MaxRows |->
                      IF j = 2 THEN <<"", ToString(j), "">>
                      ELSE IF j = MaxRows THEN <<"", ToString(j), "gmail.com">>
                      ELSE Filler(j)]

FileTables == {TableHeaderOnly, TableSingle, TableMixed, TableSecondBatch, TableTwoBatches}

\* what the user can select in the file input
FileChoices ==
  {[picked |-> FALSE, extension |-> "", readable |-> TRUE, table |-> <<>>],
   [picked |-> TRUE, extension |-> "pdf", readable |-> TRUE, table |-> <<>>],
   [picked |-> TRUE, extension |-> "csv", readable |-> FALSE, table |-> <<>>]}
  \cup {[picked |-> TRUE, extension |-> "csv", readable |-> TRUE, table |-> t] : t \in FileTables}

\* results of countTokens on a prompt (0: the call failed and was logged)
PromptTokenCounts == {3}
\* results of countTokens on a response text
ResponseTokenCounts == {5}

(***************************************************************************)
(* State                                                                   *)
(***************************************************************************)
VARIABLES
  csvData, displayData,
  isLoading, isTestingAiOnPreprocessed, isTestingDescriptionGeneration,
  isGeneratingFullDescriptions,
  aiGroundingSources, skippedBatchNumbers, currentOperationStats,
  totalInputTokens, totalOutputTokens, totalApiRequestsMade, estimatedCost,
  preprocessedTestDataForTable, aiTestedDataForTable, detailedDescriptionTestOutput,
  fileLoad, findUrls, fullDossier, testUrl, testDossier,
  isEstimatingCost, preRunEstimation, estimate,
  rawContactsSheetData, originalContactsSampleForCorrectionTestDisplay,
  correctedContactsTestDataForTable, deletedPlaceholderDescRowsTestDataForTable,
  deletedMostlyEmptyRowsTestDataForTable, mergedTestDataForTable,
  opsLeft, failuresLeft

dataVars == <<csvData, displayData>>
flagVars == <<isLoading, isTestingAiOnPreprocessed, isTestingDescriptionGeneration,
              isGeneratingFullDescriptions>>
runVars == <<aiGroundingSources, skippedBatchNumbers, currentOperationStats>>
sessionVars == <<totalInputTokens, totalOutputTokens, totalApiRequestsMade, estimatedCost>>
testOutVars == <<preprocessedTestDataForTable, aiTestedDataForTable,
                 detailedDescriptionTestOutput>>
procVars == <<fileLoad, findUrls, fullDossier, testUrl, testDossier>>
estimateVars == <<isEstimatingCost, preRunEstimation, estimate>>
contactsVars == <<rawContactsSheetData, originalContactsSampleForCorrectionTestDisplay>>
sampleVars == <<correctedContactsTestDataForTable, deletedPlaceholderDescRowsTestDataForTable,
                deletedMostlyEmptyRowsTestDataForTable, mergedTestDataForTable>>
testSectionVars == <<contactsVars, sampleVars>>
budgetVars == <<opsLeft, failuresLeft>>
vars == <<dataVars, flagVars, runVars, sessionVars, testOutVars, procVars, estimateVars,
          testSectionVars, budgetVars>>

Message(kind, a, b) == [kind |-> kind, a |-> a, b |-> b]

initialCurrentOperationStats ==
  [operationType |-> "null", status |-> "idle", inputTokens |-> 0, outputTokens |-> 0,
   apiRequests |-> 0, estimatedCost |-> 0, modelUsed |-> "null",
   progressMessage |-> Message("", 0, 0)]

StartedStats(operationType, modelUsed, message) ==
  [operationType |-> operationType, status |-> "running", inputTokens |-> 0,
   outputTokens |-> 0, apiRequests |-> 0, estimatedCost |-> 0, modelUsed |-> modelUsed,
   progressMessage |-> message]

\* the text of the main display: '' | JSON of a table | something JSON.parse rejects
EmptyDisplay == [text |-> "empty", table |-> <<>>]
JsonDisplay(table) == [text |-> "json", table |-> table]

\* JSON.parse(displayData) succeeds and yields an array of at least two rows
ParsesToRows(display) == display.text = "json" /\ Len(display.table) >= 2

IdleFileLoad == [pc |-> "idle", file |-> <<>>]
IdleFindUrls ==
  [pc |-> "idle", headerRow |-> <<>>, dataRows |-> <<>>, i |-> 0, retries |-> 0,
   batchApiRequestMadeThisAttempt |-> FALSE,
   currentRunOpInputTokens |-> 0, currentRunOpOutputTokens |-> 0,
   currentRunOpApiRequests |-> 0, runSkippedBatchNumbersLocal |-> <<>>,
   allProcessedDataRows |-> <<>>, accumulatedGroundingSourcesFromBatches |-> <<>>,
   closureEstimatedCost |-> 0, closureTotalApiRequestsMade |-> 0,
   generateContentCalls |-> <<>>, countTokensCalls |-> <<>>]

IdleTestUrl ==
  [pc |-> "idle", dataForAiTest |-> <<>>, opInputTokens |-> 0,
   closureEstimatedCost |-> 0, closureTotalApiRequestsMade |-> 0]

IdleTestDossier ==
  [pc |-> "idle", retries |-> 0, opTokensForCall |-> [input |-> 0, requests |-> 0],
   closureStats |-> initialCurrentOperationStats,
   closureEstimatedCost |-> 0, closureTotalApiRequestsMade |-> 0]

IdleFullDossier ==
  [pc |-> "idle", headerRow |-> <<>>, dataRows |-> <<>>, i |-> 0, retries |-> 0,
   opTokensForCall |-> [input |-> 0, requests |-> 0],
   closureStats |-> initialCurrentOperationStats,
   closureEstimatedCost |-> 0, closureTotalApiRequestsMade |-> 0,
   generateContentCalls |-> <<>>, rowsNotUpdated |-> {},
   countTokensCalls |-> <<>>]

\* preRunEstimation === null
NoPreRunEstimation ==
  [isNull |-> TRUE, inputTokens |-> 0, apiRequests |-> 0, estimatedInputCost |-> 0]

\* the locals of handleEstimateFullAiRunCost; countedBatches are the batch
\* numbers at which totalEstimatedApiRequests was incremented
IdleEstimate ==
  [pc |-> "idle", headerRow |-> <<>>, dataRows |-> <<>>, i |-> 0,
   totalEstimatedInputTokens |-> 0, totalEstimatedApiRequests |-> 0,
   closureTotalApiRequestsMade |-> 0, countedBatches |-> {}]

Init ==
  /\ csvData = <<>>
  /\ displayData = EmptyDisplay
  /\ isLoading = FALSE
  /\ isTestingAiOnPreprocessed = FALSE
  /\ isTestingDescriptionGeneration = FALSE
  /\ isGeneratingFullDescriptions = FALSE
  /\ aiGroundingSources = <<>>
  /\ skippedBatchNumbers = <<>>
  /\ currentOperationStats = initialCurrentOperationStats
  /\ totalInputTokens = 0
  /\ totalOutputTokens = 0
  /\ totalApiRequestsMade = 0
  /\ estimatedCost = 0
  /\ preprocessedTestDataForTable = <<>>
  /\ aiTestedDataForTable = <<>>
  /\ detailedDescriptionTestOutput = "null"
  /\ fileLoad = IdleFileLoad
  /\ findUrls = IdleFindUrls
  /\ fullDossier = IdleFullDossier
  /\ testUrl = IdleTestUrl
  /\ testDossier = IdleTestDossier
  /\ isEstimatingCost = FALSE
  /\ preRunEstimation = NoPreRunEstimation
  /\ estimate = IdleEstimate
  /\ rawContactsSheetData = <<>>
  /\ originalContactsSampleForCorrectionTestDisplay = <<>>
  /\ correctedContactsTestDataForTable = <<>>
  /\ deletedPlaceholderDescRowsTestDataForTable = <<>>
  /\ deletedMostlyEmptyRowsTestDataForTable = <<>>
  /\ mergedTestDataForTable = <<>>
  /\ opsLeft = MaxOps
  /\ failuresLeft = MaxServiceFailures

(***************************************************************************)
(* What the rendered page allows                                           *)
(***************************************************************************)
isAnyTestLoading ==
  isTestingAiOnPreprocessed \/ isEstimatingCost \/ isTestingDescriptionGeneration
isAnyFullLoading == isLoading \/ isGeneratingFullDescriptions
isAnyMajorProcessing == isAnyTestLoading \/ isAnyFullLoading
canRunAnyProcess == Len(csvData) > 0 \/ displayData.text # "empty"

\* no handler is inside a synchronous stretch: an event can be delivered
Yielded == findUrls.pc # "loop" /\ fullDossier.pc # "loop"

\* a click, while the session's budget of operations lasts
UserCan(enabled) == Yielded /\ opsLeft > 0 /\ enabled

\* updateDisplayData(data, ...): setCsvData and setDisplayData(JSON.stringify(data))
updateDisplayData(data) ==
  /\ csvData' = data
  /\ displayData' = JsonDisplay(data)

(***************************************************************************)
(* handleFileChange                                                        *)
(***************************************************************************)
\* the body of handleFileChange, for the file the change event carries
fileChanged(file) ==
  /\ opsLeft' = opsLeft - 1
  /\ UNCHANGED failuresLeft
  /\ UNCHANGED <<isEstimatingCost, estimate>>
  /\   IF ~file.picked
         THEN UNCHANGED <<dataVars, flagVars, runVars, sessionVars, testOutVars, procVars,
                          preRunEstimation, testSectionVars>>
         ELSE
           \* the resets come first, before the extension and the running check
           /\ rawContactsSheetData' = <<>>
           /\ originalContactsSampleForCorrectionTestDisplay' = <<>>
           /\ correctedContactsTestDataForTable' = <<>>
           /\ deletedPlaceholderDescRowsTestDataForTable' = <<>>
           /\ deletedMostlyEmptyRowsTestDataForTable' = <<>>
           /\ mergedTestDataForTable' = <<>>
           /\ preRunEstimation' = NoPreRunEstimation
           /\ preprocessedTestDataForTable' = <<>>
           /\ aiTestedDataForTable' = <<>>
           /\ detailedDescriptionTestOutput' = "null"
           /\ aiGroundingSources' = <<>>
           /\ skippedBatchNumbers' = <<>>
           /\ currentOperationStats' = initialCurrentOperationStats
           /\ totalInputTokens' = 0
           /\ totalOutputTokens' = 0
           /\ totalApiRequestsMade' = 0
           /\ estimatedCost' = 0
           /\ csvData' = <<>>
           /\ displayData' = EmptyDisplay
           /\ isGeneratingFullDescriptions' = FALSE
           /\ UNCHANGED <<isTestingAiOnPreprocessed, isTestingDescriptionGeneration,
                          findUrls, fullDossier, testUrl, testDossier>>
           /\ IF file.extension \notin {"csv", "xlsx", "xls"}
                THEN isLoading' = FALSE /\ UNCHANGED fileLoad
              ELSE IF isAnyMajorProcessing
                THEN isLoading' = FALSE /\ UNCHANGED fileLoad
              ELSE /\ isLoading' = TRUE
                   /\ fileLoad' = [pc |-> "reading", file |-> file]

\* the change event of the file input, which the page disables while it works
fileSelected(file) ==
  /\ UserCan(~isAnyMajorProcessing)
  /\ fileLoad.pc = "idle"
  /\ fileChanged(file)

handleFileChange == \E file \in FileChoices : fileSelected(file)

\* a change event that reaches the handler while a processing flag is set
\* (dispatched on the input by a script or a browser extension, which the
\* disabled attribute does not stop)
fileChangeWhileProcessing ==
  \E file \in FileChoices :
    /\ UserCan(isAnyMajorProcessing)
    /\ fileChanged(file)

\* reader.onload / reader.onerror
fileReaderDone ==
  /\ UNCHANGED <<estimateVars, testSectionVars>>
  /\ Yielded
  /\ fileLoad.pc = "reading"
  /\ fileLoad' = IdleFileLoad
  /\ isLoading' = FALSE
  /\ IF ~fileLoad.file.readable
       THEN UNCHANGED dataVars
     ELSE IF Len(fileLoad.file.table) = 0
       THEN updateDisplayData(<<>>)
     ELSE updateDisplayData(StringifyRows(fileLoad.file.table))
  /\ UNCHANGED <<isTestingAiOnPreprocessed, isTestingDescriptionGeneration,
                 isGeneratingFullDescriptions, runVars, sessionVars, testOutVars,
                 findUrls, fullDossier, testUrl, testDossier, budgetVars>>

(***************************************************************************)
(* The generation service as handleFindUrlsWithAi sees it                  *)
(***************************************************************************)
Min(a, b) == IF a <= b THEN a ELSE b

\* rows.slice(start, end) with 0-based, end-exclusive indices
Slice(rows, start, end) == SubSeq(rows, start + 1, Min(end, Len(rows)))

\* Math.ceil(n / BATCH_SIZE)
TotalBatches(n) == (n + BATCH_SIZE - 1) \div BATCH_SIZE

\* while (row.length < 3) row.push(''); row[2] = url
SetUrlCell(row, url) ==
  [c \in 1..(IF Len(row) < 3 THEN 3 ELSE Len(row)) |->
     IF c = 3 THEN url ELSE IF c <= Len(row) THEN row[c] ELSE ""]

\* what the service may answer for the rows submitted to it
AiRow(style, row) ==
  CASE style = "found"       -> SetUrlCell(row, "a.com")
    [] style = "placeholder" -> SetUrlCell(row, "N/A")
    [] style = "scrambled"   -> <<"ZZ", "zz", "a.com", "extra">>

AiRows(style, headerRow, submitted) ==
  <<headerRow>> \o [k \in 1..Len(submitted) |-> AiRow(style, submitted[k])]

\* kind: "throw" generateContent rejects; "invalid" no text in the response;
\* "text" a response with a text.  json: "unparsable" JSON.parse throws;
\* "notRows" a JSON value whose rows are not all arrays; "rows" a table.
\* grounding: "none", "chunks" (one web chunk), "malformed" (reading it throws)
Response(kind, json, rows, grounding) ==
  [kind |-> kind, json |-> json, rows |-> rows, grounding |-> grounding]

UrlResponses(headerRow, submitted) ==
  { Response("throw", "unparsable", <<>>, "none"),
    Response("invalid", "unparsable", <<>>, "none"),
    Response("text", "unparsable", <<>>, "none"),
    Response("text", "notRows", <<>>, "none"),
    Response("text", "rows", AiRows("found", headerRow, submitted) \o <<<<"ZZ">>>>, "none"),
    Response("text", "rows", AiRows("found", headerRow, submitted), "chunks"),
    Response("text", "rows", AiRows("placeholder", headerRow, submitted), "none"),
    Response("text", "rows", AiRows("scrambled", headerRow, submitted), "chunks"),
    Response("text", "rows", AiRows("found", headerRow, submitted), "malformed") }

\* an answer that makes an attempt fail uses up one of the session's failures
ServiceFails == failuresLeft > 0 /\ failuresLeft' = failuresLeft - 1

(***************************************************************************)
(* handleFindUrlsWithAi                                                    *)
(***************************************************************************)
\* a variant in which every row of a chunk is looked up
EveryRowRequiresAiLookup(chunk) ==
  [m \in 1..Len(chunk) |-> [originalIndexInChunk |-> m - 1, rowData |-> chunk[m]]]

\* the rows of a chunk that fail isPlausibleUrl, with their 0-based position
ItemsRequiringAiLookup(chunk) ==
  LET Needs(k) == ~isPlausibleUrl(Cell(chunk[k], 2))
      positions == SelectSeq([k \in 1..Len(chunk) |-> k], Needs)
  IN  [m \in 1..Len(positions) |->
         [originalIndexInChunk |-> positions[m] - 1, rowData |-> chunk[positions[m]]]]

RowsOf(items) == [m \in 1..Len(items) |-> items[m].rowData]

CurrentChunk(f) == Slice(f.dataRows, f.i * BATCH_SIZE, f.i * BATCH_SIZE + BATCH_SIZE)

\* the table whose JSON the prompt of the current batch carries
dataToSendToAiForBatch(f) ==
  <<f.headerRow>> \o RowsOf(ItemsRequiringAiLookup(CurrentChunk(f)))

\* a variant in which a submitted row is replaced by the whole response row
MergeBatchWholeRows(chunk, items, aiProcessedRowsOnly) ==
  [k \in 1..Len(chunk) |->
     IF \E m \in 1..Len(items) : items[m].originalIndexInChunk = k - 1
       THEN aiProcessedRowsOnly[CHOOSE m \in 1..Len(items) :
                                  items[m].originalIndexInChunk = k - 1]
       ELSE chunk[k]]

\* the scatter of the response rows onto the rows of the chunk
MergeBatch(chunk, items, aiProcessedRowsOnly) ==
  [k \in 1..Len(chunk) |->
     IF \E m \in 1..Len(items) : items[m].originalIndexInChunk = k - 1
       THEN LET m == CHOOSE m \in 1..Len(items) : items[m].originalIndexInChunk = k - 1
            IN  SetUrlCell(chunk[k], Cell(aiProcessedRowsOnly[m], 2))
       ELSE chunk[k]]

\* a request is counted after generateContent returned, on the first attempt only
CountsRequestAfterCall(f) == ~f.batchApiRequestMadeThisAttempt /\ f.retries = 0
\* ... or when the batch gives up without any request counted
CountsRequestOnExhaustion(f) ==
  ~f.batchApiRequestMadeThisAttempt /\ f.retries = MAX_RETRIES + 1

\* a variant in which a batch that gave up leaves nothing in the output
DroppedRows(chunk) == <<>>

\* the rows a batch that gave up leaves in the output
PreservedRows(chunk) == StringifyRows(chunk)

handleFindUrlsWithAi ==
  /\ UserCan(~isAnyMajorProcessing /\ canRunAnyProcess)
  /\ findUrls.pc = "idle"
  /\ opsLeft' = opsLeft - 1
  /\ UNCHANGED failuresLeft
  /\ skippedBatchNumbers' = <<>>
  /\ preRunEstimation' = NoPreRunEstimation
  /\ UNCHANGED <<isEstimatingCost, estimate, testSectionVars>>
  /\ IF ~ParsesToRows(displayData)
       THEN UNCHANGED <<dataVars, flagVars, aiGroundingSources, currentOperationStats,
                        sessionVars, testOutVars, procVars>>
       ELSE
         /\ isLoading' = TRUE
         /\ currentOperationStats' =
              StartedStats("full_url", "flash", Message("Starting URL finding...", 0, 0))
         /\ aiGroundingSources' = <<>>
         /\ findUrls' =
              [IdleFindUrls EXCEPT
                 !.pc = "loop",
                 !.headerRow = displayData.table[1],
                 !.dataRows = Tail(displayData.table),
                 !.closureEstimatedCost = estimatedCost,
                 !.closureTotalApiRequestsMade = totalApiRequestsMade,
                 !.generateContentCalls =
                    [b \in 1..TotalBatches(Len(displayData.table) - 1) |-> 0],
                 !.countTokensCalls =
                    [b \in 1..TotalBatches(Len(displayData.table) - 1) |-> 0]]
         /\ UNCHANGED <<dataVars, isTestingAiOnPreprocessed, isTestingDescriptionGeneration,
                        isGeneratingFullDescriptions, sessionVars, testOutVars,
                        fileLoad, fullDossier, testUrl, testDossier>>

\* the end of one loop iteration: grounding sources and the incremental display
FinishBatch(f) ==
  /\ aiGroundingSources' = f.accumulatedGroundingSourcesFromBatches
  /\ updateDisplayData(<<f.headerRow>> \o f.allProcessedDataRows)
  /\ findUrls' = [f EXCEPT !.i = @ + 1, !.pc = "loop"]

\* the head of a loop iteration, up to the await of countTokens (or, for a
\* batch without lookups, through the whole iteration)
findUrlsBatchHead ==
  /\ UNCHANGED <<estimateVars, testSectionVars>>
  /\ findUrls.pc = "loop"
  /\ findUrls.i < TotalBatches(Len(findUrls.dataRows))
  /\ LET chunk == CurrentChunk(findUrls)
         stats == [currentOperationStats EXCEPT
                     !.progressMessage =
                        Message("Processing Batch", findUrls.i + 1,
                                TotalBatches(Len(findUrls.dataRows)))]
     IN  IF Len(ItemsRequiringAiLookup(chunk)) = 0
           THEN /\ currentOperationStats' = stats
                /\ FinishBatch([findUrls EXCEPT
                                  !.allProcessedDataRows = @ \o StringifyRows(chunk)])
           ELSE /\ currentOperationStats' = stats
                /\ findUrls' = [findUrls EXCEPT !.pc = "countTokens"]
                /\ UNCHANGED <<dataVars, aiGroundingSources>>
  /\ UNCHANGED <<flagVars, skippedBatchNumbers, sessionVars, testOutVars,
                 fileLoad, fullDossier, testUrl, testDossier, budgetVars>>

\* countTokens of the prompt returned: once per batch, before the retry loop
findUrlsCountTokens ==
  /\ UNCHANGED <<estimateVars, testSectionVars>>
  /\ Yielded
  /\ findUrls.pc = "countTokens"
  /\ \E batchInputTokens \in PromptTokenCounts :
       LET f == [findUrls EXCEPT
                   !.currentRunOpInputTokens = @ + batchInputTokens,
                   !.countTokensCalls[findUrls.i + 1] = @ + 1,
                   !.retries = 0,
                   !.batchApiRequestMadeThisAttempt = FALSE,
                   !.pc = "generateContent"]
       IN  /\ findUrls' = f
           /\ currentOperationStats' =
                [currentOperationStats EXCEPT
                   !.inputTokens = f.currentRunOpInputTokens,
                   !.estimatedCost =
                      calculateOperationCost(f.currentRunOpInputTokens,
                                             f.currentRunOpOutputTokens,
                                             f.currentRunOpApiRequests + 1, "flash")]
  /\ UNCHANGED <<dataVars, flagVars, aiGroundingSources, skippedBatchNumbers,
                 sessionVars, testOutVars, fileLoad, fullDossier, testUrl, testDossier,
                 budgetVars>>

\* the catch block of one attempt
AttemptFailed(f, chunk) ==
  LET g == [f EXCEPT !.retries = @ + 1]
  IN  /\ ServiceFails
      /\ IF g.retries > MAX_RETRIES
           THEN FinishBatch(
                  [g EXCEPT
                     !.allProcessedDataRows = @ \o PreservedRows(chunk),
                     !.runSkippedBatchNumbersLocal = Append(@, g.i + 1),
                     !.currentRunOpApiRequests =
                        IF CountsRequestOnExhaustion(g) THEN @ + 1 ELSE @])
           ELSE /\ findUrls' = g
                /\ UNCHANGED <<dataVars, aiGroundingSources>>

\* one attempt of the retry loop: (the backoff delay,) generateContent,
\* countTokens of the response, parsing, merging, grounding sources
findUrlsAttempt ==
  /\ UNCHANGED <<estimateVars, testSectionVars>>
  /\ Yielded
  /\ findUrls.pc = "generateContent"
  /\ LET chunk == CurrentChunk(findUrls)
         items == ItemsRequiringAiLookup(chunk)
         called == [findUrls EXCEPT !.generateContentCalls[findUrls.i + 1] = @ + 1]
     IN
     \E response \in UrlResponses(Head(dataToSendToAiForBatch(findUrls)),
                                   Tail(dataToSendToAiForBatch(findUrls))),
        batchOutputTokens \in ResponseTokenCounts :
       /\ IF response.kind = "throw"
            THEN /\ AttemptFailed(called, chunk)
                 /\ UNCHANGED currentOperationStats
          ELSE
            LET counted ==
                  IF CountsRequestAfterCall(called)
                    THEN [called EXCEPT !.currentRunOpApiRequests = @ + 1,
                                        !.batchApiRequestMadeThisAttempt = TRUE]
                    ELSE called
            IN
            IF response.kind = "invalid"
              THEN /\ AttemptFailed(counted, chunk)
                   /\ UNCHANGED currentOperationStats
            ELSE
              LET f == [counted EXCEPT !.currentRunOpOutputTokens = @ + batchOutputTokens]
                  stats == [currentOperationStats EXCEPT
                              !.outputTokens = f.currentRunOpOutputTokens,
                              !.apiRequests = f.currentRunOpApiRequests,
                              !.estimatedCost =
                                 calculateOperationCost(f.currentRunOpInputTokens,
                                                        f.currentRunOpOutputTokens,
                                                        f.currentRunOpApiRequests, "flash")]
                  suggestedBatchDataFromAI == cleanAiNotFoundResponses(response.rows)
                  aiProcessedRowsOnly ==
                    IF Len(f.headerRow) > 0 /\ Len(suggestedBatchDataFromAI) > 0
                      THEN Tail(suggestedBatchDataFromAI)
                      ELSE suggestedBatchDataFromAI
              IN
              /\ currentOperationStats' = stats
              /\ IF response.json # "rows" \/ Len(aiProcessedRowsOnly) # Len(items)
                   THEN AttemptFailed(f, chunk)
                   ELSE
                     LET appended ==
                           [f EXCEPT !.allProcessedDataRows =
                                        @ \o MergeBatch(chunk, items, aiProcessedRowsOnly)]
                     IN  IF response.grounding = "malformed"
                           THEN AttemptFailed(appended, chunk)
                           ELSE /\ UNCHANGED failuresLeft
                                /\ FinishBatch(
                                     [appended EXCEPT
                                        !.accumulatedGroundingSourcesFromBatches =
                                           IF response.grounding = "chunks"
                                             THEN Append(@, f.i + 1) ELSE @])
  /\ UNCHANGED <<flagVars, skippedBatchNumbers, sessionVars, testOutVars,
                 fileLoad, fullDossier, testUrl, testDossier, opsLeft>>

\* a variant in which the run leaves the status as it was while it ran
StatusStaysRunning(skipped) == "running"

\* the status the run sets after its last batch
FinalUrlRunStatus(skipped) == IF skipped > 0 THEN "error" ELSE "completed"

\* after the last batch: the final status, the session totals, the display
findUrlsFinalize ==
  /\ UNCHANGED <<estimateVars, testSectionVars>>
  /\ findUrls.pc = "loop"
  /\ findUrls.i >= TotalBatches(Len(findUrls.dataRows))
  /\ LET f == findUrls
         totalBatches == TotalBatches(Len(f.dataRows))
         skipped == Len(f.runSkippedBatchNumbersLocal)
     IN
     /\ skippedBatchNumbers' = f.runSkippedBatchNumbersLocal
     /\ currentOperationStats' =
          [currentOperationStats EXCEPT
             !.status = FinalUrlRunStatus(skipped),
             !.progressMessage =
                Message("All URL Batches Processed.", totalBatches - skipped, totalBatches)]
     /\ totalInputTokens' = totalInputTokens + f.currentRunOpInputTokens
     /\ totalOutputTokens' = totalOutputTokens + f.currentRunOpOutputTokens
     /\ totalApiRequestsMade' = totalApiRequestsMade + f.currentRunOpApiRequests
     /\ estimatedCost' =
          recalculateCumulativeSessionCost(
            estimatedCost + calculateOperationCost(f.currentRunOpInputTokens,
                                                   f.currentRunOpOutputTokens,
                                                   f.currentRunOpApiRequests, "flash"),
            f.closureEstimatedCost, f.closureTotalApiRequestsMade)
     /\ updateDisplayData(<<f.headerRow>> \o f.allProcessedDataRows)
     /\ isLoading' = FALSE
     /\ findUrls' = IdleFindUrls
  /\ UNCHANGED <<isTestingAiOnPreprocessed, isTestingDescriptionGeneration,
                 isGeneratingFullDescriptions, aiGroundingSources, testOutVars,
                 fileLoad, fullDossier, testUrl, testDossier, budgetVars>>

(***************************************************************************)
(* The editable main display and the pre-processing test                   *)
(***************************************************************************)
\* onChange of the textarea: the user replaces the text by one JSON.parse rejects
handleDisplayEdit ==
  /\ UNCHANGED <<estimateVars, testSectionVars>>
  /\ UserCan(~isAnyMajorProcessing /\ canRunAnyProcess)
  /\ displayData.text = "json"
  /\ opsLeft' = opsLeft - 1
  /\ displayData' = [text |-> "garbage", table |-> <<>>]
  /\ UNCHANGED <<csvData, flagVars, runVars, sessionVars, testOutVars, procVars,
                 failuresLeft>>

\* [data[0], ...data.slice(1, Math.min(data.length, TEST_DATA_ROW_COUNT + 1))]
TestSample(data) ==
  <<data[1]>> \o Slice(data, 1, Min(Len(data), TEST_DATA_ROW_COUNT + 1))

\* the sample of the main display, with the URLs the contacts sheet offers
handlePreprocessingTest ==
  /\ UNCHANGED <<estimateVars, contactsVars, correctedContactsTestDataForTable>>
  /\ UserCan(~isAnyTestLoading /\ canRunAnyProcess)
  /\ opsLeft' = opsLeft - 1
  /\ deletedPlaceholderDescRowsTestDataForTable' = <<>>
  /\ deletedMostlyEmptyRowsTestDataForTable' = <<>>
  /\ mergedTestDataForTable' = <<>>
  /\ aiTestedDataForTable' = <<>>
  /\ detailedDescriptionTestOutput' = "null"
  /\ IF ParsesToRows(displayData)
       THEN IF Len(rawContactsSheetData) > 1
              THEN preprocessedTestDataForTable' =
                     prefillUrlsFromContacts(TestSample(displayData.table),
                                             rawContactsSheetData)
              ELSE preprocessedTestDataForTable' = TestSample(displayData.table)
       ELSE UNCHANGED preprocessedTestDataForTable
  /\ UNCHANGED <<dataVars, flagVars, runVars, sessionVars, procVars, failuresLeft>>

(***************************************************************************)
(* The other handlers of the test section                                  *)
(***************************************************************************)
\* a test step's input: the result of the step before it or, without one,
\* the sample of the main display (no rows when the display does not parse)
SampleOrDisplay(previous) ==
  IF previous # <<>> THEN previous
  ELSE IF displayData.text = "json" /\ Len(displayData.table) > 0
    THEN TestSample(displayData.table)
  ELSE <<>>

handleContactCorrectionTest ==
  /\ UserCan(~isAnyTestLoading /\ originalContactsSampleForCorrectionTestDisplay # <<>>)
  /\ opsLeft' = opsLeft - 1
  /\ correctedContactsTestDataForTable' =
       IF Len(originalContactsSampleForCorrectionTestDisplay) < 1 THEN <<>>
       ELSE correctContactSheetAccountAssignments(
              originalContactsSampleForCorrectionTestDisplay)
  /\ UNCHANGED <<dataVars, flagVars, runVars, sessionVars, testOutVars, procVars,
                 estimateVars, contactsVars, deletedPlaceholderDescRowsTestDataForTable,
                 deletedMostlyEmptyRowsTestDataForTable, mergedTestDataForTable,
                 failuresLeft>>

handlePlaceholderDescRowDeletionTest ==
  /\ UserCan(~isAnyTestLoading /\ canRunAnyProcess)
  /\ opsLeft' = opsLeft - 1
  /\ deletedMostlyEmptyRowsTestDataForTable' = <<>>
  /\ mergedTestDataForTable' = <<>>
  /\ aiTestedDataForTable' = <<>>
  /\ detailedDescriptionTestOutput' = "null"
  /\ LET dataToProcess == SampleOrDisplay(preprocessedTestDataForTable)
     IN  IF Len(dataToProcess) < 2
           THEN UNCHANGED deletedPlaceholderDescRowsTestDataForTable
           ELSE deletedPlaceholderDescRowsTestDataForTable' =
                  performPlaceholderDescRowDeletionLogic(dataToProcess)
  /\ UNCHANGED <<dataVars, flagVars, runVars, sessionVars, preprocessedTestDataForTable,
                 procVars, estimateVars, contactsVars, correctedContactsTestDataForTable,
                 failuresLeft>>

handleMostlyEmptyRowsTest ==
  /\ UserCan(~isAnyTestLoading /\ canRunAnyProcess)
  /\ opsLeft' = opsLeft - 1
  /\ mergedTestDataForTable' = <<>>
  /\ aiTestedDataForTable' = <<>>
  /\ detailedDescriptionTestOutput' = "null"
  /\ LET dataToProcess ==
           SampleOrDisplay(IF deletedPlaceholderDescRowsTestDataForTable # <<>>
                             THEN deletedPlaceholderDescRowsTestDataForTable
                             ELSE preprocessedTestDataForTable)
     IN  IF Len(dataToProcess) < 2
           THEN UNCHANGED deletedMostlyEmptyRowsTestDataForTable
           ELSE deletedMostlyEmptyRowsTestDataForTable' =
                  performMostlyEmptyRowsLogic(dataToProcess)
  /\ UNCHANGED <<dataVars, flagVars, runVars, sessionVars, preprocessedTestDataForTable,
                 procVars, estimateVars, contactsVars, correctedContactsTestDataForTable,
                 deletedPlaceholderDescRowsTestDataForTable, failuresLeft>>

\* a variant in which the merged sample is shown as the main data
commitMergedTestData(mergedData) ==
  /\ mergedTestDataForTable' = mergedData
  /\ updateDisplayData(mergedData)

\* setMergedTestDataForTable(mergedData): the handler sets the test table and
\* neither csvData nor displayData
showMergedTestData(mergedData) ==
  /\ mergedTestDataForTable' = mergedData
  /\ UNCHANGED dataVars

handleMergeDuplicatesTest ==
  /\ UserCan(~isAnyTestLoading /\ canRunAnyProcess)
  /\ opsLeft' = opsLeft - 1
  /\ aiTestedDataForTable' = <<>>
  /\ detailedDescriptionTestOutput' = "null"
  /\ LET dataToProcess ==
           SampleOrDisplay(IF deletedMostlyEmptyRowsTestDataForTable # <<>>
                             THEN deletedMostlyEmptyRowsTestDataForTable
                           ELSE IF deletedPlaceholderDescRowsTestDataForTable # <<>>
                             THEN deletedPlaceholderDescRowsTestDataForTable
                           ELSE preprocessedTestDataForTable)
     IN  IF Len(dataToProcess) < 2
           THEN UNCHANGED <<mergedTestDataForTable, dataVars>>
           ELSE showMergedTestData(performMergeDuplicatesLogic(dataToProcess))
  /\ UNCHANGED <<flagVars, runVars, sessionVars, preprocessedTestDataForTable,
                 procVars, estimateVars, contactsVars, correctedContactsTestDataForTable,
                 deletedPlaceholderDescRowsTestDataForTable,
                 deletedMostlyEmptyRowsTestDataForTable, failuresLeft>>

(***************************************************************************)
(* handleAiTestOnPreprocessedData                                          *)
(***************************************************************************)
\* the table whose JSON the prompt of the test carries
dataForAiTestString(t) == t.dataForAiTest

\* what the service may answer for the sample submitted by the test
TestUrlResponses(dataForAiTest) ==
  { Response("throw", "unparsable", <<>>, "none"),
    Response("invalid", "unparsable", <<>>, "none"),
    Response("text", "unparsable", <<>>, "none"),
    Response("text", "notRows", <<>>, "none"),
    Response("text", "rows", AiRows("found", dataForAiTest[1], Tail(dataForAiTest)), "chunks"),
    Response("text", "rows", AiRows("placeholder", dataForAiTest[1], Tail(dataForAiTest)), "none"),
    Response("text", "rows", AiRows("found", dataForAiTest[1], Tail(dataForAiTest)), "malformed") }

\* mergedTestDataForTable || deletedMostlyEmptyRowsTestDataForTable ||
\* deletedPlaceholderDescRowsTestDataForTable || preprocessedTestDataForTable
LatestTestData ==
  IF mergedTestDataForTable # <<>> THEN mergedTestDataForTable
  ELSE IF deletedMostlyEmptyRowsTestDataForTable # <<>>
    THEN deletedMostlyEmptyRowsTestDataForTable
  ELSE IF deletedPlaceholderDescRowsTestDataForTable # <<>>
    THEN deletedPlaceholderDescRowsTestDataForTable
  ELSE preprocessedTestDataForTable

handleAiTestOnPreprocessedData ==
  /\ UserCan(~isAnyTestLoading /\ LatestTestData # <<>>)
  /\ testUrl.pc = "idle"
  /\ opsLeft' = opsLeft - 1
  /\ UNCHANGED <<isEstimatingCost, estimate, testSectionVars>>
  /\ IF Len(LatestTestData) < 2
       THEN UNCHANGED <<flagVars, runVars, testUrl, preRunEstimation>>
       ELSE /\ isTestingAiOnPreprocessed' = TRUE
            /\ preRunEstimation' = NoPreRunEstimation
            /\ currentOperationStats' =
                 StartedStats("test_url", "flash",
                              Message("Processing rows...",
                                      Len(LatestTestData) - 1, 0))
            /\ aiGroundingSources' = <<>>
            /\ testUrl' = [pc |-> "countTokens",
                           dataForAiTest |-> LatestTestData,
                           opInputTokens |-> 0,
                           closureEstimatedCost |-> estimatedCost,
                           closureTotalApiRequestsMade |-> totalApiRequestsMade]
            /\ UNCHANGED <<isLoading, isTestingDescriptionGeneration,
                           isGeneratingFullDescriptions, skippedBatchNumbers>>
  /\ UNCHANGED <<dataVars, sessionVars, testOutVars, fileLoad, findUrls, fullDossier,
                 testDossier, failuresLeft>>

testUrlCountTokens ==
  /\ UNCHANGED <<estimateVars, testSectionVars>>
  /\ Yielded
  /\ testUrl.pc = "countTokens"
  /\ \E opInputTokens \in PromptTokenCounts :
       /\ testUrl' = [testUrl EXCEPT !.opInputTokens = opInputTokens,
                                     !.pc = "generateContent"]
       /\ currentOperationStats' =
            [currentOperationStats EXCEPT
               !.inputTokens = opInputTokens,
               !.estimatedCost = calculateOperationCost(opInputTokens, 0, 1, "flash")]
  /\ UNCHANGED <<dataVars, flagVars, aiGroundingSources, skippedBatchNumbers,
                 sessionVars, testOutVars, fileLoad, findUrls, fullDossier, testDossier,
                 budgetVars>>

\* the finally block of the test
TestUrlFinally(opInputTokens, opOutputTokens, opApiRequests) ==
  /\ totalInputTokens' = totalInputTokens + opInputTokens
  /\ totalOutputTokens' = totalOutputTokens + opOutputTokens
  /\ totalApiRequestsMade' = totalApiRequestsMade + opApiRequests
  /\ estimatedCost' =
       recalculateCumulativeSessionCost(
         estimatedCost + calculateOperationCost(opInputTokens, opOutputTokens,
                                                opApiRequests, "flash"),
         testUrl.closureEstimatedCost, testUrl.closureTotalApiRequestsMade)
  /\ isTestingAiOnPreprocessed' = FALSE
  /\ testUrl' = IdleTestUrl

\* generateContent, countTokens of the response, parsing, cleaning, grounding
\* sources, then catch and finally
testUrlGenerate ==
  /\ UNCHANGED <<estimateVars, testSectionVars>>
  /\ Yielded
  /\ testUrl.pc = "generateContent"
  /\ \E response \in TestUrlResponses(dataForAiTestString(testUrl)),
        opOutputTokens \in ResponseTokenCounts :
       LET failed == [currentOperationStats EXCEPT
                        !.status = "error", !.progressMessage = Message("Error", 0, 0)]
       IN
       IF response.kind = "throw"
         THEN /\ ServiceFails
              /\ currentOperationStats' = failed
              /\ TestUrlFinally(testUrl.opInputTokens, 0, 0)
              /\ UNCHANGED <<aiTestedDataForTable, aiGroundingSources>>
       ELSE IF response.kind = "invalid"
         THEN /\ ServiceFails
              /\ currentOperationStats' = failed
              /\ TestUrlFinally(testUrl.opInputTokens, 0, 1)
              /\ UNCHANGED <<aiTestedDataForTable, aiGroundingSources>>
       ELSE
         LET stats == [currentOperationStats EXCEPT
                         !.outputTokens = opOutputTokens,
                         !.apiRequests = 1,
                         !.estimatedCost =
                            calculateOperationCost(testUrl.opInputTokens,
                                                   opOutputTokens, 1, "flash")]
         IN
         /\ TestUrlFinally(testUrl.opInputTokens, opOutputTokens, 1)
         /\ IF response.json # "rows"
              THEN /\ ServiceFails
                   /\ currentOperationStats' =
                        [stats EXCEPT !.status = "error",
                                      !.progressMessage = Message("Error", 0, 0)]
                   /\ UNCHANGED <<aiTestedDataForTable, aiGroundingSources>>
              ELSE /\ aiTestedDataForTable' = cleanAiNotFoundResponses(response.rows)
                   /\ IF response.grounding = "malformed"
                        THEN /\ ServiceFails
                             /\ currentOperationStats' =
                                  [stats EXCEPT !.status = "error",
                                                !.progressMessage = Message("Error", 0, 0)]
                             /\ UNCHANGED aiGroundingSources
                        ELSE /\ UNCHANGED failuresLeft
                             /\ currentOperationStats' =
                                  [stats EXCEPT
                                     !.status = "completed",
                                     !.progressMessage =
                                        Message("AI URL Finding Test complete.", 0, 0)]
                             /\ IF response.grounding = "chunks"
                                  THEN aiGroundingSources' = <<0>>
                                  ELSE UNCHANGED aiGroundingSources
  /\ UNCHANGED <<dataVars, isLoading, isTestingDescriptionGeneration,
                 isGeneratingFullDescriptions, skippedBatchNumbers,
                 preprocessedTestDataForTable, detailedDescriptionTestOutput,
                 fileLoad, findUrls, fullDossier, testDossier, opsLeft>>

(***************************************************************************)
(* generateDetailedDescriptionForOrganization                              *)
(***************************************************************************)
\* String(row[0] ?? '').trim() is empty
HasNoOrgName(row) == Len(Trim(CharsOf(Cell(row, 0)))) = 0

\* what the service may answer to a dossier prompt
DossierResponses ==
  { Response("throw", "unparsable", <<>>, "none"),
    Response("invalid", "unparsable", <<>>, "none"),
    Response("text", "dossier", <<>>, "none") }

\* the updateOpStatsCallback both dossier handlers pass
updateOpStatsCallback(stats, inputTokens, outputTokens, requests, cost) ==
  [stats EXCEPT !.inputTokens = @ + inputTokens,
                !.outputTokens = @ + outputTokens,
                !.apiRequests = @ + requests,
                !.estimatedCost = @ + cost]

\* countTokens of the prompt returned: once per call, before the retry loop
DossierPromptCounted(d, inputTokens) ==
  [d EXCEPT !.opTokensForCall = [input |-> inputTokens, requests |-> 0],
            !.retries = 0,
            !.pc = "generateContent"]

StatsAfterPromptCounted(stats, inputTokens) ==
  updateOpStatsCallback(stats, inputTokens, 0, 0,
                        calculateOperationCost(inputTokens, 0, 1, "pro"))

\* the text was returned and its tokens counted
StatsAfterDossier(stats, d, outputTokens) ==
  updateOpStatsCallback(
    stats, 0, outputTokens, 1,
    calculateOperationCost(d.opTokensForCall.input, outputTokens, 1, "pro")
      - calculateOperationCost(d.opTokensForCall.input, 0, 1, "pro"))

\* a variant in which a failed attempt goes back to counting the prompt
DossierRecountsAfterFailure(d, response) ==
  [d EXCEPT !.retries = @ + 1,
            !.opTokensForCall.requests = IF response.kind = "invalid" THEN 1 ELSE @,
            !.pc = IF d.retries + 1 > MAX_PRO_RETRIES THEN @ ELSE "countTokens"]

\* the catch block of one attempt: retries++, and whether the call gives up
DossierAttemptFailed(d, response) ==
  [d EXCEPT !.retries = @ + 1,
            !.opTokensForCall.requests = IF response.kind = "invalid" THEN 1 ELSE @]

\* a variant in which a call gives up at its first failed attempt
GivesUpAtFirstFailure(d) == d.retries > 0

DossierGivesUp(d) == d.retries > MAX_PRO_RETRIES

(***************************************************************************)
(* handleTestDescriptionGeneration                                         *)
(***************************************************************************)
handleTestDescriptionGeneration ==
  /\ UserCan(~isAnyTestLoading /\ canRunAnyProcess)
  /\ testDossier.pc = "idle"
  /\ opsLeft' = opsLeft - 1
  /\ UNCHANGED <<isEstimatingCost, estimate, testSectionVars>>
  /\ IF ~ParsesToRows(displayData) \/ HasNoOrgName(displayData.table[2])
       THEN UNCHANGED <<flagVars, currentOperationStats, detailedDescriptionTestOutput,
                        testDossier, preRunEstimation>>
       ELSE /\ isTestingDescriptionGeneration' = TRUE
            /\ preRunEstimation' = NoPreRunEstimation
            /\ detailedDescriptionTestOutput' = "null"
            /\ currentOperationStats' =
                 StartedStats("test_dossier", "pro", Message("Generating dossier...", 0, 0))
            /\ testDossier' = [IdleTestDossier EXCEPT
                                 !.pc = "countTokens",
                                 !.closureStats = currentOperationStats,
                                 !.closureEstimatedCost = estimatedCost,
                                 !.closureTotalApiRequestsMade = totalApiRequestsMade]
            /\ UNCHANGED <<isLoading, isTestingAiOnPreprocessed,
                           isGeneratingFullDescriptions>>
  /\ UNCHANGED <<dataVars, aiGroundingSources, skippedBatchNumbers, sessionVars,
                 preprocessedTestDataForTable, aiTestedDataForTable,
                 fileLoad, findUrls, fullDossier, testUrl, failuresLeft>>

testDossierCountTokens ==
  /\ UNCHANGED <<estimateVars, testSectionVars>>
  /\ Yielded
  /\ testDossier.pc = "countTokens"
  /\ \E inputTokens \in PromptTokenCounts :
       /\ testDossier' = DossierPromptCounted(testDossier, inputTokens)
       /\ currentOperationStats' = StatsAfterPromptCounted(currentOperationStats, inputTokens)
  /\ UNCHANGED <<dataVars, flagVars, aiGroundingSources, skippedBatchNumbers,
                 sessionVars, testOutVars, fileLoad, findUrls, fullDossier, testUrl,
                 budgetVars>>

\* the finally block of the test: it reads the currentOperationStats of the
\* render the handler was started from
TestDossierFinally ==
  /\ totalInputTokens' = totalInputTokens + testDossier.closureStats.inputTokens
  /\ totalOutputTokens' = totalOutputTokens + testDossier.closureStats.outputTokens
  /\ totalApiRequestsMade' = totalApiRequestsMade + testDossier.closureStats.apiRequests
  /\ estimatedCost' =
       recalculateCumulativeSessionCost(
         estimatedCost + testDossier.closureStats.estimatedCost,
         testDossier.closureEstimatedCost, testDossier.closureTotalApiRequestsMade)
  /\ isTestingDescriptionGeneration' = FALSE
  /\ testDossier' = IdleTestDossier

\* one attempt of the call (the backoff delay, generateContent, countTokens of
\* the response), and the rest of the handler when the call returns or throws
testDossierAttempt ==
  /\ UNCHANGED <<estimateVars, testSectionVars>>
  /\ Yielded
  /\ testDossier.pc = "generateContent"
  /\ \E response \in DossierResponses, outputTokens \in ResponseTokenCounts :
       IF response.kind = "text"
         THEN /\ UNCHANGED failuresLeft
              /\ detailedDescriptionTestOutput' = response.json
              /\ currentOperationStats' =
                   [StatsAfterDossier(currentOperationStats, testDossier, outputTokens)
                      EXCEPT !.status = "completed",
                             !.progressMessage = Message("Test complete.", 0, 0)]
              /\ TestDossierFinally
       ELSE IF DossierGivesUp(DossierAttemptFailed(testDossier, response))
         THEN /\ ServiceFails
              /\ detailedDescriptionTestOutput' = "Error generating dossier"
              /\ currentOperationStats' =
                   [currentOperationStats EXCEPT
                      !.status = "error", !.progressMessage = Message("Error", 0, 0)]
              /\ TestDossierFinally
       ELSE /\ ServiceFails
            /\ testDossier' = DossierAttemptFailed(testDossier, response)
            /\ UNCHANGED <<currentOperationStats, detailedDescriptionTestOutput,
                           sessionVars, isTestingDescriptionGeneration>>
  /\ UNCHANGED <<dataVars, isLoading, isTestingAiOnPreprocessed,
                 isGeneratingFullDescriptions, aiGroundingSources, skippedBatchNumbers,
                 preprocessedTestDataForTable, aiTestedDataForTable,
                 fileLoad, findUrls, fullDossier, testUrl, opsLeft>>

(***************************************************************************)
(* handleGenerateFullDescriptions                                          *)
(***************************************************************************)
\* while (row.length <= DESCRIPTION_COL_INDEX) row.push('');
\* row[DESCRIPTION_COL_INDEX] = newDescription
SetDescriptionCell(row, newDescription) ==
  [c \in 1..(IF Len(row) <= DESCRIPTION_COL_INDEX THEN DESCRIPTION_COL_INDEX + 1
             ELSE Len(row)) |->
     IF c = DESCRIPTION_COL_INDEX + 1 THEN newDescription
     ELSE IF c <= Len(row) THEN row[c] ELSE ""]

handleGenerateFullDescriptions ==
  /\ UserCan(~isAnyMajorProcessing /\ canRunAnyProcess)
  /\ fullDossier.pc = "idle"
  /\ opsLeft' = opsLeft - 1
  /\ UNCHANGED <<isEstimatingCost, estimate, testSectionVars>>
  /\ IF ~ParsesToRows(displayData)
       THEN UNCHANGED <<flagVars, currentOperationStats, fullDossier, preRunEstimation>>
       ELSE /\ isGeneratingFullDescriptions' = TRUE
            /\ preRunEstimation' = NoPreRunEstimation
            /\ currentOperationStats' =
                 StartedStats("full_dossier", "pro",
                              Message("Starting dossier generation...", 0, 0))
            /\ fullDossier' =
                 [IdleFullDossier EXCEPT
                    !.pc = "loop",
                    !.headerRow = displayData.table[1],
                    !.dataRows = Tail(displayData.table),
                    !.closureStats = currentOperationStats,
                    !.closureEstimatedCost = estimatedCost,
                    !.closureTotalApiRequestsMade = totalApiRequestsMade,
                    !.generateContentCalls = [r \in 1..(Len(displayData.table) - 1) |-> 0],
                    !.countTokensCalls = [r \in 1..(Len(displayData.table) - 1) |-> 0]]
            /\ UNCHANGED <<isLoading, isTestingAiOnPreprocessed,
                           isTestingDescriptionGeneration>>
  /\ UNCHANGED <<dataVars, aiGroundingSources, skippedBatchNumbers, sessionVars,
                 testOutVars, fileLoad, findUrls, testUrl, testDossier, failuresLeft>>

\* the 0-based index of the first row at or after i that has a name, or the
\* number of rows when there is none
NextRowWithName(dataRows, i) ==
  LET named == {k \in (i + 1)..Len(dataRows) : ~HasNoOrgName(dataRows[k])}
  IN  IF named = {} THEN Len(dataRows)
      ELSE (CHOOSE k \in named : \A m \in named : k <= m) - 1

\* the loop from row i on, up to the await of countTokens for the next row
\* that has a name: the rows without a name are skipped on the way
fullDossierRowHead ==
  /\ UNCHANGED <<estimateVars, testSectionVars>>
  /\ fullDossier.pc = "loop"
  /\ fullDossier.i < Len(fullDossier.dataRows)
  /\ LET rows == Len(fullDossier.dataRows)
         next == NextRowWithName(fullDossier.dataRows, fullDossier.i)
     IN  /\ currentOperationStats' =
              [currentOperationStats EXCEPT
                 !.progressMessage =
                    Message("Generating dossier", IF next < rows THEN next + 1 ELSE rows,
                            rows)]
         /\ fullDossier' =
              IF next < rows
                THEN [fullDossier EXCEPT !.i = next, !.pc = "countTokens"]
                ELSE [fullDossier EXCEPT !.i = rows]
  /\ UNCHANGED <<dataVars, flagVars, aiGroundingSources, skippedBatchNumbers,
                 sessionVars, testOutVars, fileLoad, findUrls, testUrl, testDossier,
                 budgetVars>>

fullDossierCountTokens ==
  /\ UNCHANGED <<estimateVars, testSectionVars>>
  /\ Yielded
  /\ fullDossier.pc = "countTokens"
  /\ \E inputTokens \in PromptTokenCounts :
       /\ fullDossier' =
            [DossierPromptCounted(fullDossier, inputTokens)
               EXCEPT !.countTokensCalls[fullDossier.i + 1] = @ + 1]
       /\ currentOperationStats' = StatsAfterPromptCounted(currentOperationStats, inputTokens)
  /\ UNCHANGED <<dataVars, flagVars, aiGroundingSources, skippedBatchNumbers,
                 sessionVars, testOutVars, fileLoad, findUrls, testUrl, testDossier,
                 budgetVars>>

\* one attempt of the call, and the rest of the loop iteration when the call
\* returns or throws
fullDossierAttempt ==
  /\ UNCHANGED <<estimateVars, testSectionVars>>
  /\ Yielded
  /\ fullDossier.pc = "generateContent"
  /\ LET called == [fullDossier EXCEPT !.generateContentCalls[fullDossier.i + 1] = @ + 1]
     IN
     \E response \in DossierResponses, outputTokens \in ResponseTokenCounts :
       IF response.kind = "text"
         THEN LET dataRows == [called.dataRows EXCEPT
                                 ![called.i + 1] = SetDescriptionCell(@, response.json)]
              IN  /\ UNCHANGED failuresLeft
                  /\ currentOperationStats' =
                       StatsAfterDossier(currentOperationStats, called, outputTokens)
                  /\ csvData' = <<called.headerRow>> \o dataRows
                  /\ displayData' = JsonDisplay(<<called.headerRow>> \o dataRows)
                  /\ fullDossier' = [called EXCEPT !.dataRows = dataRows,
                                                   !.i = @ + 1, !.pc = "loop"]
       ELSE IF DossierGivesUp(DossierAttemptFailed(called, response))
         THEN /\ ServiceFails
              /\ fullDossier' = [DossierAttemptFailed(called, response)
                                   EXCEPT !.rowsNotUpdated = @ \cup {called.i + 1},
                                          !.i = @ + 1, !.pc = "loop"]
              /\ UNCHANGED <<currentOperationStats, dataVars>>
       ELSE /\ ServiceFails
            /\ fullDossier' = DossierAttemptFailed(called, response)
            /\ UNCHANGED <<currentOperationStats, dataVars>>
  /\ UNCHANGED <<flagVars, aiGroundingSources, skippedBatchNumbers, sessionVars,
                 testOutVars, fileLoad, findUrls, testUrl, testDossier, opsLeft>>

\* after the last row: the status, the session totals, the display
fullDossierFinalize ==
  /\ UNCHANGED <<estimateVars, testSectionVars>>
  /\ fullDossier.pc = "loop"
  /\ fullDossier.i >= Len(fullDossier.dataRows)
  /\ currentOperationStats' =
       [currentOperationStats EXCEPT
          !.status = "completed",
          !.progressMessage = Message("All dossiers processed.",
                                      Len(fullDossier.dataRows), 0)]
  /\ totalInputTokens' = totalInputTokens + fullDossier.closureStats.inputTokens
  /\ totalOutputTokens' = totalOutputTokens + fullDossier.closureStats.outputTokens
  /\ totalApiRequestsMade' = totalApiRequestsMade + fullDossier.closureStats.apiRequests
  /\ estimatedCost' =
       recalculateCumulativeSessionCost(
         estimatedCost + fullDossier.closureStats.estimatedCost,
         fullDossier.closureEstimatedCost, fullDossier.closureTotalApiRequestsMade)
  /\ updateDisplayData(<<fullDossier.headerRow>> \o fullDossier.dataRows)
  /\ isGeneratingFullDescriptions' = FALSE
  /\ fullDossier' = IdleFullDossier
  /\ UNCHANGED <<isLoading, isTestingAiOnPreprocessed, isTestingDescriptionGeneration,
                 aiGroundingSources, skippedBatchNumbers, testOutVars,
                 fileLoad, findUrls, testUrl, testDossier, budgetVars>>

(***************************************************************************)
(* handleEstimateFullAiRunCost                                             *)
(***************************************************************************)
\* a variant in which the estimator counts a request for every batch
EveryBatchEstimated(dataRows, i) ==
  IF i < TotalBatches(Len(dataRows)) THEN i ELSE TotalBatches(Len(dataRows))

\* the 0-based index of the first batch at or after i that has a row to look
\* up, or the number of batches when there is none
NextBatchToEstimate(dataRows, i) ==
  LET counted == {b \in i..(TotalBatches(Len(dataRows)) - 1) :
                    Len(ItemsRequiringAiLookup(
                          Slice(dataRows, b * BATCH_SIZE, b * BATCH_SIZE + BATCH_SIZE))) > 0}
  IN  IF counted = {} THEN TotalBatches(Len(dataRows))
      ELSE CHOOSE b \in counted : \A m \in counted : b <= m

\* inputCost + groundingCost of the finished estimation
EstimatedTotalCost(e) ==
  LET inputCost == e.totalEstimatedInputTokens * FLASH_PRICE_INPUT_PER_MILLION_TOKENS
      potentialTotalRequests == e.closureTotalApiRequestsMade + e.totalEstimatedApiRequests
      Max0(n) == IF n > 0 THEN n ELSE 0
      billableRequests ==
        Max0(potentialTotalRequests - FLASH_FREE_GROUNDING_REQUESTS_PER_DAY)
          - Max0(e.closureTotalApiRequestsMade - FLASH_FREE_GROUNDING_REQUESTS_PER_DAY)
      groundingCost ==
        IF potentialTotalRequests > FLASH_FREE_GROUNDING_REQUESTS_PER_DAY
             /\ billableRequests > 0
          THEN GroundingCostOf(billableRequests)
          ELSE 0
  IN  inputCost + groundingCost

\* the batch loop from batch i on, with the operation's stats so far: up to
\* the await of countTokens for the next batch that has a row to look up, or
\* through the end of the handler when there is none
EstimateFrom(e, i, stats) ==
  LET b == NextBatchToEstimate(e.dataRows, i)
  IN  IF b < TotalBatches(Len(e.dataRows))
        THEN /\ estimate' = [e EXCEPT !.i = b,
                                      !.totalEstimatedApiRequests = @ + 1,
                                      !.countedBatches = @ \cup {b + 1},
                                      !.pc = "countTokens"]
             /\ currentOperationStats' = stats
             /\ isEstimatingCost' = TRUE
             /\ preRunEstimation' = NoPreRunEstimation
        ELSE /\ estimate' = IdleEstimate
             /\ currentOperationStats' =
                  [stats EXCEPT !.status = "completed",
                                !.progressMessage = Message("Estimation complete.", 0, 0)]
             /\ isEstimatingCost' = FALSE
             /\ preRunEstimation' =
                  [isNull |-> FALSE,
                   inputTokens |-> e.totalEstimatedInputTokens,
                   apiRequests |-> e.totalEstimatedApiRequests,
                   estimatedInputCost |-> EstimatedTotalCost(e)]

handleEstimateFullAiRunCost ==
  /\ UserCan(~isAnyMajorProcessing /\ canRunAnyProcess)
  /\ estimate.pc = "idle"
  /\ opsLeft' = opsLeft - 1
  /\ IF ~ParsesToRows(displayData)
       THEN /\ isEstimatingCost' = FALSE
            /\ preRunEstimation' = NoPreRunEstimation
            /\ currentOperationStats' = initialCurrentOperationStats
            /\ UNCHANGED estimate
       ELSE EstimateFrom([IdleEstimate EXCEPT
                            !.headerRow = displayData.table[1],
                            !.dataRows = Tail(displayData.table),
                            !.closureTotalApiRequestsMade = totalApiRequestsMade],
                         0,
                         [operationType |-> "null", status |-> "estimating_input",
                          inputTokens |-> 0, outputTokens |-> 0, apiRequests |-> 0,
                          estimatedCost |-> 0, modelUsed |-> "flash",
                          progressMessage |->
                            Message("Estimating URL finding costs...", 0, 0)])
  /\ UNCHANGED <<dataVars, flagVars, aiGroundingSources, skippedBatchNumbers,
                 sessionVars, testOutVars, procVars, testSectionVars, failuresLeft>>

\* countTokens of a batch's prompt returned
estimateCountTokens ==
  /\ Yielded
  /\ estimate.pc = "countTokens"
  /\ \E batchTokens \in PromptTokenCounts :
       EstimateFrom([estimate EXCEPT !.totalEstimatedInputTokens = @ + batchTokens],
                    estimate.i + 1, currentOperationStats)
  /\ UNCHANGED <<dataVars, flagVars, aiGroundingSources, skippedBatchNumbers,
                 sessionVars, testOutVars, procVars, testSectionVars, budgetVars>>

Next ==
  \/ handleFileChange
  \/ fileReaderDone
  \/ handleFindUrlsWithAi
  \/ findUrlsBatchHead
  \/ findUrlsCountTokens
  \/ findUrlsAttempt
  \/ findUrlsFinalize
  \/ handleDisplayEdit
  \/ handlePreprocessingTest
  \/ handleAiTestOnPreprocessedData
  \/ testUrlCountTokens
  \/ testUrlGenerate
  \/ handleTestDescriptionGeneration
  \/ testDossierCountTokens
  \/ testDossierAttempt
  \/ handleGenerateFullDescriptions
  \/ fullDossierRowHead
  \/ fullDossierCountTokens
  \/ fullDossierAttempt
  \/ fullDossierFinalize
  \/ handleEstimateFullAiRunCost
  \/ estimateCountTokens

Spec == Init /\ [][Next]_vars

\* The URL run under the scheduling of the event loop: the synchronous
\* stretches of the handler run on, and every awaited countTokens or
\* generateContent call settles, after which the handler is resumed.
SpecFair ==
  /\ Init
  /\ [][Next]_vars
  /\ WF_vars(findUrlsBatchHead)
  /\ WF_vars(findUrlsCountTokens)
  /\ WF_vars(findUrlsAttempt)
  /\ WF_vars(findUrlsFinalize)

(***************************************************************************)
(* A session that has used up the free grounding requests of the day       *)
(***************************************************************************)
\* the session after a file with TableSingle was loaded, the pre-processing
\* test was run, and n URL tests were answered with a table and one web chunk
\* (n at most one above the free tier: estimatedCost is still 0)
SessionAfterUrlTests(n) ==
  LET table == StringifyRows(TableSingle)
      inputTokens == CHOOSE t \in PromptTokenCounts : TRUE
      outputTokens == CHOOSE t \in ResponseTokenCounts : TRUE
  IN
  /\ csvData = table
  /\ displayData = JsonDisplay(table)
  /\ isLoading = FALSE
  /\ isTestingAiOnPreprocessed = FALSE
  /\ isTestingDescriptionGeneration = FALSE
  /\ isGeneratingFullDescriptions = FALSE
  /\ aiGroundingSources = <<0>>
  /\ skippedBatchNumbers = <<>>
  /\ currentOperationStats =
       [operationType |-> "test_url", status |-> "completed",
        inputTokens |-> inputTokens, outputTokens |-> outputTokens, apiRequests |-> 1,
        estimatedCost |-> calculateOperationCost(inputTokens, outputTokens, 1, "flash"),
        modelUsed |-> "flash",
        progressMessage |-> Message("AI URL Finding Test complete.", 0, 0)]
  /\ totalInputTokens = n * inputTokens
  /\ totalOutputTokens = n * outputTokens
  /\ totalApiRequestsMade = n
  /\ estimatedCost = 0
  /\ preprocessedTestDataForTable = TestSample(table)
  /\ aiTestedDataForTable =
       cleanAiNotFoundResponses(AiRows("found", table[1], Tail(TestSample(table))))
  /\ detailedDescriptionTestOutput = "null"
  /\ fileLoad = IdleFileLoad
  /\ findUrls = IdleFindUrls
  /\ fullDossier = IdleFullDossier
  /\ testUrl = IdleTestUrl
  /\ testDossier = IdleTestDossier
  /\ isEstimatingCost = FALSE
  /\ preRunEstimation = NoPreRunEstimation
  /\ estimate = IdleEstimate
  /\ rawContactsSheetData = <<>>
  /\ originalContactsSampleForCorrectionTestDisplay = <<>>
  /\ correctedContactsTestDataForTable = <<>>
  /\ deletedPlaceholderDescRowsTestDataForTable = <<>>
  /\ deletedMostlyEmptyRowsTestDataForTable = <<>>
  /\ mergedTestDataForTable = <<>>

InitPastFreeTier ==
  /\ SessionAfterUrlTests(FLASH_FREE_GROUNDING_REQUESTS_PER_DAY + 1)
  /\ opsLeft = MaxOps
  /\ failuresLeft = MaxServiceFailures

SpecPastFreeTier == InitPastFreeTier /\ [][Next]_vars

(***************************************************************************)
(* The pure functions on their own: a specification per function, whose    *)
(* initial states hold the arguments and whose action applies the function *)
(***************************************************************************)
\* a page on which nothing runs, showing the given operation stats and the
\* given table of the URL test
PageWith(data, stats, preprocessed, tested, detailed) ==
  /\ csvData = data
  /\ displayData = (IF data = <<>> THEN EmptyDisplay ELSE JsonDisplay(data))
  /\ isLoading = FALSE
  /\ isTestingAiOnPreprocessed = FALSE
  /\ isTestingDescriptionGeneration = FALSE
  /\ isGeneratingFullDescriptions = FALSE
  /\ aiGroundingSources = <<>>
  /\ skippedBatchNumbers = <<>>
  /\ currentOperationStats = stats
  /\ totalInputTokens = 0
  /\ totalOutputTokens = 0
  /\ totalApiRequestsMade = 0
  /\ estimatedCost = 0
  /\ preprocessedTestDataForTable = preprocessed
  /\ aiTestedDataForTable = tested
  /\ detailedDescriptionTestOutput = detailed
  /\ fileLoad = IdleFileLoad
  /\ findUrls = IdleFindUrls
  /\ fullDossier = IdleFullDossier
  /\ testUrl = IdleTestUrl
  /\ testDossier = IdleTestDossier
  /\ isEstimatingCost = FALSE
  /\ preRunEstimation = NoPreRunEstimation
  /\ estimate = IdleEstimate
  /\ rawContactsSheetData = <<>>
  /\ originalContactsSampleForCorrectionTestDisplay = <<>>
  /\ correctedContactsTestDataForTable = <<>>
  /\ deletedPlaceholderDescRowsTestDataForTable = <<>>
  /\ deletedMostlyEmptyRowsTestDataForTable = <<>>
  /\ mergedTestDataForTable = <<>>
  /\ opsLeft = MaxOps
  /\ failuresLeft = MaxServiceFailures

PageShowing(data, stats, preprocessed, tested) ==
  PageWith(data, stats, preprocessed, tested, "null")

QuietPageOn(stats, preprocessed, tested) == PageShowing(<<>>, stats, preprocessed, tested)

QuietPage(stats, tested) == QuietPageOn(stats, <<>>, tested)

\* the arguments of calculateOperationCost: token counts, and request counts
\* on both sides of the free tier of grounding requests
OperationInputTokens == {0, 3, 1000, 1000000}
OperationOutputTokens == {0, 5, 1000000}
OperationApiRequests ==
  {0, 1, FLASH_FREE_GROUNDING_REQUESTS_PER_DAY, FLASH_FREE_GROUNDING_REQUESTS_PER_DAY + 1,
   FLASH_FREE_GROUNDING_REQUESTS_PER_DAY + 1000}
OperationModels == {"flash", "pro"}

\* an operation that has counted its tokens and requests and has no cost yet
InitOperationCost ==
  \E inputTokens \in OperationInputTokens, outputTokens \in OperationOutputTokens,
     apiRequests \in OperationApiRequests, modelType \in OperationModels :
    QuietPage([StartedStats("full_url", modelType, Message("", 0, 0)) EXCEPT
                 !.inputTokens = inputTokens,
                 !.outputTokens = outputTokens,
                 !.apiRequests = apiRequests],
              <<>>)

\* estimatedCost: calculateOperationCost(inputTokens, outputTokens, apiRequests, model)
applyCalculateOperationCost ==
  /\ currentOperationStats.status = "running"
  /\ currentOperationStats' =
       [currentOperationStats EXCEPT
          !.status = "completed",
          !.estimatedCost =
             calculateOperationCost(currentOperationStats.inputTokens,
                                    currentOperationStats.outputTokens,
                                    currentOperationStats.apiRequests,
                                    currentOperationStats.modelUsed)]
  /\ UNCHANGED <<dataVars, flagVars, aiGroundingSources, skippedBatchNumbers,
                 sessionVars, testOutVars, procVars, estimateVars, testSectionVars,
                 budgetVars>>

NextOperationCost == applyCalculateOperationCost

SpecOperationCost == InitOperationCost /\ [][NextOperationCost]_vars

(***************************************************************************)
(* The test section on a loaded workbook                                   *)
(***************************************************************************)
placeholderDescription ==
  "Insufficient specific information available on the website to generate a detailed analytical profile for referral matchmaking."

\* the organizations sheet: a row to look up, a duplicate of it under another
\* casing, a row with the placeholder description, a row with a name only
OrganizationsSheet ==
  <<HeaderRow,
    <<"A", "1", "gmail.com">>,
    <<"a", "2", "good.com">>,
    SetDescriptionCell(<<"B", "3", "">>, placeholderDescription),
    <<"ZZ">> >>

\* the contacts sheet: the e-mail in column 3, the account in column 9; the
\* second contact of the domain a.com is assigned to the wrong account
ContactsSheet ==
  << <<"Id", "First", "Last", "Email", "", "", "", "", "", "Account">>,
     <<"1", "", "", "x@a.com", "", "", "", "", "", "Accounts::::A">>,
     <<"2", "", "", "y@a.com", "", "", "", "", "", "Accounts::::B">>,
     <<"3">> >>

\* workbooks with and without a second sheet
Workbooks ==
  {[organizations |-> OrganizationsSheet, contacts |-> ContactsSheet],
   [organizations |-> OrganizationsSheet, contacts |-> <<>>]}

\* the main data reader.onload shows for a workbook
LoadedData(workbook) ==
  IF Len(correctContactSheetAccountAssignments(workbook.contacts)) > 1
    THEN prefillUrlsFromContacts(
           StringifyRows(workbook.organizations),
           correctContactSheetAccountAssignments(workbook.contacts))
    ELSE StringifyRows(workbook.organizations)

\* the page after a workbook was selected and read
InitTestSection ==
  \E workbook \in Workbooks :
    /\ csvData = LoadedData(workbook)
    /\ displayData = JsonDisplay(LoadedData(workbook))
    /\ rawContactsSheetData =
         IF Len(workbook.contacts) > 0
           THEN correctContactSheetAccountAssignments(workbook.contacts) ELSE <<>>
    /\ originalContactsSampleForCorrectionTestDisplay =
         IF Len(workbook.contacts) > 0 THEN TestSample(workbook.contacts) ELSE <<>>
    /\ correctedContactsTestDataForTable = <<>>
    /\ deletedPlaceholderDescRowsTestDataForTable = <<>>
    /\ deletedMostlyEmptyRowsTestDataForTable = <<>>
    /\ mergedTestDataForTable = <<>>
    /\ isLoading = FALSE
    /\ isTestingAiOnPreprocessed = FALSE
    /\ isTestingDescriptionGeneration = FALSE
    /\ isGeneratingFullDescriptions = FALSE
    /\ aiGroundingSources = <<>>
    /\ skippedBatchNumbers = <<>>
    /\ currentOperationStats = initialCurrentOperationStats
    /\ totalInputTokens = 0
    /\ totalOutputTokens = 0
    /\ totalApiRequestsMade = 0
    /\ estimatedCost = 0
    /\ preprocessedTestDataForTable = <<>>
    /\ aiTestedDataForTable = <<>>
    /\ detailedDescriptionTestOutput = "null"
    /\ fileLoad = IdleFileLoad
    /\ findUrls = IdleFindUrls
    /\ fullDossier = IdleFullDossier
    /\ testUrl = IdleTestUrl
    /\ testDossier = IdleTestDossier
    /\ isEstimatingCost = FALSE
    /\ preRunEstimation = NoPreRunEstimation
    /\ estimate = IdleEstimate
    /\ opsLeft = MaxTestOps
    /\ failuresLeft = MaxServiceFailures

\* the operations of the test section
NextTestSection ==
  \/ handleContactCorrectionTest
  \/ handlePreprocessingTest
  \/ handlePlaceholderDescRowDeletionTest
  \/ handleMostlyEmptyRowsTest
  \/ handleMergeDuplicatesTest
  \/ handleAiTestOnPreprocessedData
  \/ testUrlCountTokens
  \/ testUrlGenerate
  \/ handleTestDescriptionGeneration
  \/ testDossierCountTokens
  \/ testDossierAttempt

SpecTestSection == InitTestSection /\ [][NextTestSection]_vars

(***************************************************************************)
(* cleanAiNotFoundResponses on its own                                     *)
(***************************************************************************)
\* cells of the tables given to the cleaner: empty, a URL, a short
\* placeholder in upper case, the long placeholder with its capital
CleanerCells == {"", "a.com", "N/A", placeholderDescription}

\* data rows too short to have a URL cell, with a URL cell, and with a cell
\* after it
CleanerRows ==
  {<<"A", "">>}
    \cup {<<"A", "", url>> : url \in CleanerCells}
    \cup {<<"A", "", url, next>> : url \in CleanerCells, next \in CleanerCells}

\* header rows, one of them with a placeholder in the URL column
CleanerHeaders == {HeaderRow, <<"Organization Name", "Id", "N/A">>}

\* the tables: no row at all, or a header and up to MaxCleanerRows data rows
CleanerInputs ==
  {<<>>} \cup
  {<<headerRow>> \o rows :
     headerRow \in CleanerHeaders,
     rows \in UNION {[1..n -> CleanerRows] : n \in 0..MaxCleanerRows}}

\* the table given to the cleaner is kept in preprocessedTestDataForTable,
\* the table it works on in aiTestedDataForTable
InitClean ==
  \E data \in CleanerInputs : QuietPageOn(initialCurrentOperationStats, data, data)

\* setAiTestedDataForTable(cleanAiNotFoundResponses(...)) on the table shown
applyCleanAiNotFoundResponses ==
  /\ opsLeft > 0
  /\ opsLeft' = opsLeft - 1
  /\ aiTestedDataForTable' = cleanAiNotFoundResponses(aiTestedDataForTable)
  /\ UNCHANGED <<dataVars, flagVars, runVars, sessionVars, preprocessedTestDataForTable,
                 detailedDescriptionTestOutput, procVars, estimateVars, testSectionVars,
                 failuresLeft>>

NextClean == applyCleanAiNotFoundResponses

SpecClean == InitClean /\ [][NextClean]_vars

(***************************************************************************)
(* isPlausibleUrl on its own, as the URL run applies it to a row           *)
(***************************************************************************)
\* the page shows a table of one data row with the URL cell under test
InitPlausible ==
  \E url \in DOMAIN UrlCharTable :
    PageShowing(<<HeaderRow, <<"A", "", url>>>>, initialCurrentOperationStats, <<>>, <<>>)

\* the run starts and its first batch decides by isPlausibleUrl whether the
\* row is looked up
NextPlausible ==
  \/ handleFindUrlsWithAi
  \/ findUrlsBatchHead
  \/ findUrlsFinalize

SpecPlausible == InitPlausible /\ [][NextPlausible]_vars

(***************************************************************************)
(* The parsing of a response text on its own                               *)
(***************************************************************************)
\* A response text is a sequence of pieces: a code fence (with its optional
\* language tag), words, an opening bracket, a closing bracket, a JSON scalar.
TextPieces == {"fence", "prose", "[", "]", "scalar"}

ResponseTexts == UNION {[1..n -> TextPieces] : n \in 1..MaxTextPieces}

\* JSON.parse(text) does not throw: a scalar, or an array that is empty or
\* holds one value
RECURSIVE ValidJson(_)
ValidJson(text) ==
  \/ text = <<"scalar">>
  \/ /\ Len(text) >= 2
     /\ text[1] = "["
     /\ text[Len(text)] = "]"
     /\ Len(text) = 2 \/ ValidJson(SubSeq(text, 2, Len(text) - 1))

\* aiResponseText.match(fenceRegex) with a non-empty match[2]
MatchesFence(text) == Len(text) >= 3 /\ text[1] = "fence" /\ text[Len(text)] = "fence"

\* indexOf('[') and lastIndexOf(']'), 1-based, 0 when there is none
FirstBracket(text) ==
  IF \E k \in 1..Len(text) : text[k] = "["
    THEN CHOOSE k \in 1..Len(text) : text[k] = "[" /\ \A m \in 1..(k - 1) : text[m] # "["
    ELSE 0
LastBracket(text) ==
  IF \E k \in 1..Len(text) : text[k] = "]"
    THEN CHOOSE k \in 1..Len(text) :
           text[k] = "]" /\ \A m \in (k + 1)..Len(text) : text[m] # "]"
    ELSE 0

\* the text that is handed to the final JSON.parse
TextToParse(text) ==
  IF MatchesFence(text) THEN SubSeq(text, 2, Len(text) - 1)
  ELSE IF FirstBracket(text) # 0 /\ LastBracket(text) > FirstBracket(text)
          /\ ValidJson(SubSeq(text, FirstBracket(text), LastBracket(text)))
    THEN SubSeq(text, FirstBracket(text), LastBracket(text))
  ELSE text

\* the response text is kept in detailedDescriptionTestOutput
InitParse ==
  \E text \in ResponseTexts :
    PageWith(<<>>, StartedStats("test_url", "flash", Message("", 0, 0)), <<>>, <<>>, text)

\* the parsing stretch of the URL test: the parsed text is shown as the only
\* row of the test table, a throw of JSON.parse ends in the catch block
applyParseResponse ==
  /\ currentOperationStats.status = "running"
  /\ LET aiResponseText == TextToParse(detailedDescriptionTestOutput)
     IN  IF ValidJson(aiResponseText)
           THEN /\ aiTestedDataForTable' = <<aiResponseText>>
                /\ currentOperationStats' =
                     [currentOperationStats EXCEPT !.status = "completed"]
           ELSE /\ aiTestedDataForTable' = <<>>
                /\ currentOperationStats' =
                     [currentOperationStats EXCEPT !.status = "error"]
  /\ UNCHANGED <<dataVars, flagVars, aiGroundingSources, skippedBatchNumbers,
                 sessionVars, preprocessedTestDataForTable, detailedDescriptionTestOutput,
                 procVars, estimateVars, testSectionVars, budgetVars>>

NextParse == applyParseResponse

SpecParse == InitParse /\ [][NextParse]_vars

(***************************************************************************)
(* Properties of the full URL run                                          *)
(***************************************************************************)
\* the loop of the URL run has ended and the run is about to finalize
UrlRunLoopEnded ==
  findUrls.pc = "loop" /\ findUrls.i >= TotalBatches(Len(findUrls.dataRows))

\* an output row is an input row, possibly with another URL cell (and padded
\* up to the URL column)
SameRowButUrl(outRow, inRow) ==
  /\ Len(outRow) >= Len(inRow)
  /\ Len(outRow) <= (IF Len(inRow) < 3 THEN 3 ELSE Len(inRow))
  /\ \A c \in 1..Len(outRow) : c # 3 => outRow[c] = Cell(inRow, c - 1)

\* C1: when the loop of the full URL run has ended, the output holds the input
\* rows in their order: output row k is input row k, possibly with a changed
\* URL cell.
C1_OrderPreserved ==
  UrlRunLoopEnded =>
    /\ Len(findUrls.allProcessedDataRows) = Len(findUrls.dataRows)
    /\ \A k \in 1..Len(findUrls.dataRows) :
         SameRowButUrl(findUrls.allProcessedDataRows[k], findUrls.dataRows[k])

\* the batch of the run gives up in this step
BatchExhausts ==
  /\ findUrls.pc = "generateContent"
  /\ Len(findUrls'.runSkippedBatchNumbersLocal) # Len(findUrls.runSkippedBatchNumbersLocal)

\* C2: a batch whose every attempt fails gives up after exactly MAX_RETRIES + 1
\* calls of generateContent; the step that gives up appends the batch's
\* original rows unchanged at the end of the output and adds the batch's
\* 1-based number, once, to the skipped batches; no batch ever has more calls.
C2_RetryBound ==
  [][ /\ \A b \in 1..Len(findUrls'.generateContentCalls) :
           findUrls'.generateContentCalls[b] <= MAX_RETRIES + 1
      /\ BatchExhausts =>
           LET b == findUrls.i + 1
               skipped == findUrls.runSkippedBatchNumbersLocal
           IN  /\ findUrls'.generateContentCalls[b] = MAX_RETRIES + 1
               /\ EndsWith(findUrls'.allProcessedDataRows, CurrentChunk(findUrls))
               /\ StartsWith(findUrls'.allProcessedDataRows, findUrls.allProcessedDataRows)
               /\ findUrls'.runSkippedBatchNumbersLocal = Append(skipped, b)
               /\ \A m \in 1..Len(skipped) : skipped[m] # b
               /\ findUrls'.i = b ]_vars

\* a batch has given up after its attempts and the run goes on or ends
C2_Witness ==
  /\ findUrls.pc = "loop"
  /\ findUrls.i = 1
  /\ findUrls.runSkippedBatchNumbersLocal = <<1>>
  /\ findUrls.generateContentCalls[1] = MAX_RETRIES + 1

\* C3: when a batch of the full URL run is over, the run's request counter
\* holds one request for every batch that was submitted to generateContent.
C3_OneRequestPerSubmittedBatch ==
  findUrls.pc = "loop" =>
    findUrls.currentRunOpApiRequests =
      Cardinality({b \in 1..Len(findUrls.generateContentCalls) :
                     findUrls.generateContentCalls[b] > 0})

\* every row of the batch has a URL cell that passes isPlausibleUrl
AllPlausible(chunk) == \A k \in 1..Len(chunk) : isPlausibleUrl(Cell(chunk[k], 2))

BatchRows(b) == Slice(findUrls.dataRows, (b - 1) * BATCH_SIZE, b * BATCH_SIZE)

\* C4: for a batch whose rows all have a plausible URL, neither generateContent
\* nor countTokens is ever called, and the step that handles the batch appends
\* its rows with unchanged cells.
C4_NoCallBatch ==
  [][ /\ \A b \in 1..Len(findUrls'.generateContentCalls) :
           AllPlausible(Slice(findUrls'.dataRows, (b - 1) * BATCH_SIZE, b * BATCH_SIZE)) =>
             /\ findUrls'.generateContentCalls[b] = 0
             /\ findUrls'.countTokensCalls[b] = 0
      /\ ( /\ findUrls.pc = "loop"
           /\ findUrls.i < TotalBatches(Len(findUrls.dataRows))
           /\ AllPlausible(BatchRows(findUrls.i + 1)) ) =>
           /\ findUrls'.pc = "loop"
           /\ findUrls'.i = findUrls.i + 1
           /\ findUrls'.allProcessedDataRows =
                findUrls.allProcessedDataRows \o BatchRows(findUrls.i + 1) ]_vars

\* a batch without lookups has been handled, and a later batch is being looked up
C4_Witness ==
  /\ findUrls.pc = "generateContent"
  /\ findUrls.i = 1
  /\ AllPlausible(BatchRows(1))
  /\ findUrls.allProcessedDataRows = BatchRows(1)
  /\ findUrls.generateContentCalls[1] = 0

(***************************************************************************)
(* Properties of the status, the session totals and the running operations *)
(***************************************************************************)
\* the URL run finalizes in this step
UrlRunEnds == UrlRunLoopEnded /\ findUrls'.pc = "idle"
UrlTestEnds == testUrl.pc = "generateContent" /\ testUrl'.pc = "idle"
DossierTestEnds == testDossier.pc = "generateContent" /\ testDossier'.pc = "idle"
DossierRunEnds == fullDossier.pc = "loop" /\ fullDossier'.pc = "idle"

FullRunInProgress == findUrls.pc # "idle" \/ fullDossier.pc # "idle"
AiTestInProgress == testUrl.pc # "idle" \/ testDossier.pc # "idle"

\* C5: while the full URL run is in progress the status is 'running'; when the
\* run ends the status is 'completed' if no batch gave up and 'error'
\* otherwise, and the progress message reports the batches that did not give
\* up out of all batches.
C5_StatusOfUrlRun ==
  [][ /\ findUrls'.pc # "idle" => currentOperationStats'.status = "running"
      /\ UrlRunEnds =>
           LET totalBatches == TotalBatches(Len(findUrls.dataRows))
               skipped == Len(findUrls.runSkippedBatchNumbersLocal)
           IN  /\ currentOperationStats'.status =
                    (IF skipped = 0 THEN "completed" ELSE "error")
               /\ currentOperationStats'.progressMessage =
                    Message("All URL Batches Processed.", totalBatches - skipped,
                            totalBatches) ]_vars

\* C6: when the full URL run ends, with the stats still those of the run, the
\* session's input tokens, output tokens and requests have grown by the
\* values of the run's final stats.
C6_TotalsGrowByFinalStats ==
  [][ (UrlRunEnds /\ currentOperationStats.operationType = "full_url") =>
        /\ totalInputTokens' = totalInputTokens + currentOperationStats'.inputTokens
        /\ totalOutputTokens' = totalOutputTokens + currentOperationStats'.outputTokens
        /\ totalApiRequestsMade' =
             totalApiRequestsMade + currentOperationStats'.apiRequests ]_vars

\* the stats are those of the dossier operation that ends in this step
OwnDossierStats ==
  \/ DossierTestEnds /\ currentOperationStats'.operationType = "test_dossier"
  \/ DossierRunEnds /\ currentOperationStats'.operationType = "full_dossier"

\* C7: when an AI operation ends within the free grounding tier, the session's
\* estimated cost has grown by the cost calculated for the operation's tokens.
C7_CostGrowsByOperationCost ==
  [][ /\ (UrlRunEnds /\ totalApiRequestsMade' <= FLASH_FREE_GROUNDING_REQUESTS_PER_DAY) =>
           estimatedCost' = estimatedCost +
             calculateOperationCost(findUrls.currentRunOpInputTokens,
                                    findUrls.currentRunOpOutputTokens,
                                    findUrls.currentRunOpApiRequests, "flash")
      /\ (UrlTestEnds /\ totalApiRequestsMade' <= FLASH_FREE_GROUNDING_REQUESTS_PER_DAY) =>
           estimatedCost' = estimatedCost +
             calculateOperationCost(totalInputTokens' - totalInputTokens,
                                    totalOutputTokens' - totalOutputTokens,
                                    totalApiRequestsMade' - totalApiRequestsMade, "flash")
      /\ (OwnDossierStats /\ totalApiRequestsMade' <= FLASH_FREE_GROUNDING_REQUESTS_PER_DAY) =>
           estimatedCost' = estimatedCost +
             calculateOperationCost(currentOperationStats'.inputTokens,
                                    currentOperationStats'.outputTokens,
                                    currentOperationStats'.apiRequests, "pro") ]_vars

\* C8: when a dossier operation ends, with the stats still its own, the
\* session's input tokens, output tokens and requests have grown by the
\* values the operation accumulated in its stats.
C8_DossierTotalsGrowByOwnStats ==
  [][ OwnDossierStats =>
        /\ totalInputTokens' = totalInputTokens + currentOperationStats'.inputTokens
        /\ totalOutputTokens' = totalOutputTokens + currentOperationStats'.outputTokens
        /\ totalApiRequestsMade' =
             totalApiRequestsMade + currentOperationStats'.apiRequests ]_vars

\* C9: no step but a file load makes one of the four session totals smaller.
C9_TotalsNeverDecrease ==
  [][ \/ handleFileChange
      \/ /\ totalInputTokens' >= totalInputTokens
         /\ totalOutputTokens' >= totalOutputTokens
         /\ totalApiRequestsMade' >= totalApiRequestsMade
         /\ estimatedCost' >= estimatedCost ]_vars

\* C10: while a full run (URL finding or dossier generation) is in progress,
\* no AI test, which writes currentOperationStats, the grounding sources and
\* the session totals, is in progress.
C10_FullRunExcludesTests == FullRunInProgress => ~AiTestInProgress

(***************************************************************************)
(* Properties of the dossier run                                           *)
(***************************************************************************)
\* the call for the current row of the full dossier run gives up in this step
DossierRowGivesUp ==
  /\ fullDossier.pc = "generateContent"
  /\ fullDossier'.pc = "loop"
  /\ failuresLeft' # failuresLeft

\* C11: a row of the full dossier run whose every attempt fails gives up at
\* exactly MAX_PRO_RETRIES + 1 calls of generateContent (no row ever has
\* more); the step that gives up leaves the row, its description cell and the
\* main data as they were and moves to the next row; and the loop goes on from
\* there to the next row that has a name, skipping only rows without one.
C11_DossierRetryBound ==
  [][ /\ \A r \in 1..Len(fullDossier'.generateContentCalls) :
           fullDossier'.generateContentCalls[r] <= MAX_PRO_RETRIES + 1
      /\ DossierRowGivesUp =>
           LET r == fullDossier.i + 1
           IN  /\ fullDossier'.generateContentCalls[r] = MAX_PRO_RETRIES + 1
               /\ fullDossier'.dataRows = fullDossier.dataRows
               /\ Cell(fullDossier'.dataRows[r], DESCRIPTION_COL_INDEX) =
                    Cell(fullDossier.dataRows[r], DESCRIPTION_COL_INDEX)
               /\ csvData' = csvData
               /\ displayData' = displayData
               /\ fullDossier'.i = r
      /\ (fullDossier.pc = "loop" /\ fullDossier.i < Len(fullDossier.dataRows)) =>
           /\ fullDossier'.i >= fullDossier.i
           /\ \A k \in (fullDossier.i + 1)..fullDossier'.i :
                HasNoOrgName(fullDossier.dataRows[k])
           /\ IF fullDossier'.i < Len(fullDossier.dataRows)
                THEN /\ fullDossier'.pc = "countTokens"
                     /\ ~HasNoOrgName(fullDossier.dataRows[fullDossier'.i + 1])
                ELSE fullDossier'.pc = "loop" ]_vars

\* the first row gave up after its attempts, kept an empty description, and
\* the call for the second row is under way
C11_Witness ==
  /\ fullDossier.pc = "generateContent"
  /\ fullDossier.i = 1
  /\ fullDossier.generateContentCalls[1] = MAX_PRO_RETRIES + 1
  /\ Cell(fullDossier.dataRows[1], DESCRIPTION_COL_INDEX) = ""
  /\ displayData.table = <<fullDossier.headerRow>> \o fullDossier.dataRows

\* C12: when at least one row of a full dossier run exhausted its retries, the
\* step that ends the run sets the status 'error' or a progress message other
\* than the one saying that all rows were processed.
C12_FailureReported ==
  [][ (DossierRunEnds /\ fullDossier.rowsNotUpdated # {}) =>
        \/ currentOperationStats'.status = "error"
        \/ currentOperationStats'.progressMessage #
             Message("All dossiers processed.", Len(fullDossier.dataRows), 0) ]_vars

(***************************************************************************)
(* Properties of the cost estimator                                        *)
(***************************************************************************)
\* the batches of the given rows that have a row whose URL is not plausible
BatchesToLookUp(dataRows, upTo) ==
  {b \in 1..upTo :
     ~AllPlausible(Slice(dataRows, (b - 1) * BATCH_SIZE, b * BATCH_SIZE))}

\* the estimator returns in this step and publishes its estimation
EstimateEnds == estimate' = IdleEstimate /\ ~preRunEstimation'.isNull

\* C13: the estimator and the full URL run partition the rows alike: the
\* estimator counts a request for exactly the batches that have a row without
\* a plausible URL, the run calls generateContent for exactly those batches,
\* and no step of the estimator calls generateContent (it touches no other
\* handler's calls, no answer of the service, neither data nor session totals).
C13_SamePartition ==
  [][ /\ estimate'.pc = "countTokens" =>
           /\ estimate'.countedBatches =
                BatchesToLookUp(estimate'.dataRows, estimate'.i + 1)
           /\ estimate'.totalEstimatedApiRequests = Cardinality(estimate'.countedBatches)
      /\ EstimateEnds =>
           LET dataRows == IF estimate.pc = "idle" THEN Tail(displayData.table)
                           ELSE estimate.dataRows
           IN  preRunEstimation'.apiRequests =
                 Cardinality(BatchesToLookUp(dataRows, TotalBatches(Len(dataRows))))
      /\ findUrls'.pc # "idle" =>
           {b \in 1..findUrls'.i : findUrls'.generateContentCalls[b] > 0} =
             BatchesToLookUp(findUrls'.dataRows, findUrls'.i)
      /\ (estimate' # estimate \/ isEstimatingCost \/ isEstimatingCost') =>
           UNCHANGED <<findUrls, fullDossier, testUrl, testDossier, failuresLeft,
                       dataVars, sessionVars, aiGroundingSources>> ]_vars

\* an estimation of a table of two batches is published: one request, for the
\* second batch, the first having only plausible URLs
C13_Witness ==
  /\ ~preRunEstimation.isNull
  /\ preRunEstimation.apiRequests = 1
  /\ ParsesToRows(displayData)
  /\ BatchesToLookUp(Tail(displayData.table), 2) = {2}

(***************************************************************************)
(* Properties of the pure functions                                        *)
(***************************************************************************)
\* C14: the cost of a flash operation is its input cost plus its output cost
\* plus the grounding cost of its requests beyond the free tier (in units of
\* 1e-8 USD).
C14_CostIncludesGrounding ==
  (currentOperationStats.status = "completed"
     /\ currentOperationStats.modelUsed = "flash") =>
    currentOperationStats.estimatedCost =
        currentOperationStats.inputTokens * FLASH_PRICE_INPUT_PER_MILLION_TOKENS
      + currentOperationStats.outputTokens * FLASH_PRICE_OUTPUT_THINKING_PER_MILLION_TOKENS
      + ( IF currentOperationStats.apiRequests > FLASH_FREE_GROUNDING_REQUESTS_PER_DAY
            THEN (currentOperationStats.apiRequests - FLASH_FREE_GROUNDING_REQUESTS_PER_DAY)
                   * FLASH_PRICE_GROUNDING_PER_THOUSAND_REQUESTS_AFTER_FREE_TIER * 100000
            ELSE 0 )

(***************************************************************************)
(* Properties of the handlers' input validation and of the requests        *)
(***************************************************************************)
\* the URL run or the dossier run is invoked on a display that does not parse
\* to an array of at least two rows
RunOnInvalidInput ==
  /\ ~ParsesToRows(displayData)
  /\ handleFindUrlsWithAi \/ handleGenerateFullDescriptions

\* C15: a URL run or dossier run invoked on invalid input does not start (no
\* retry, no countTokens and no generateContent call follows from it), leaves
\* the data and the session totals unchanged, and sets the status 'error'.
C15_InvalidInputIsAnError ==
  [][ RunOnInvalidInput =>
        /\ findUrls' = findUrls
        /\ fullDossier' = fullDossier
        /\ failuresLeft' = failuresLeft
        /\ UNCHANGED <<dataVars, sessionVars>>
        /\ currentOperationStats'.status = "error" ]_vars

\* the table carries the header and, below it, only rows whose URL cell fails
\* isPlausibleUrl
CarriesOnlyLookups(headerRow, table) ==
  /\ Len(table) > 0
  /\ table[1] = headerRow
  /\ \A k \in 2..Len(table) : ~isPlausibleUrl(Cell(table[k], 2))

\* C16: every generateContent request for URL finding, of the full run and of
\* the URL test alike, carries the header row and only rows whose URL cell
\* fails isPlausibleUrl.
C16_RequestsCarryOnlyLookups ==
  /\ findUrls.pc = "generateContent" =>
       CarriesOnlyLookups(findUrls.headerRow, dataToSendToAiForBatch(findUrls))
  /\ testUrl.pc = "generateContent" =>
       CarriesOnlyLookups(testUrl.dataForAiTest[1], dataForAiTestString(testUrl))

\* a file whose extension is none of csv, xlsx, xls
Unsupported(file) == file.picked /\ file.extension \notin {"csv", "xlsx", "xls"}

\* C17: selecting a file with an unsupported extension leaves the main display
\* data as it was.
C17_UnsupportedFileKeepsDisplay ==
  [][ \A file \in FileChoices :
        (Unsupported(file) /\ fileSelected(file)) => displayData' = displayData ]_vars

(***************************************************************************)
(* Properties of the test section                                          *)
(***************************************************************************)
\* C18: no operation of the test section (the contact correction test, the
\* URL pre-processing test, the two row deletion tests, the merge duplicates
\* test, the AI URL test and the dossier test, with the steps that follow
\* their awaits) changes csvData or displayData.
C18_TestsKeepMainData ==
  [][ NextTestSection => (csvData' = csvData /\ displayData' = displayData) ]_vars

\* the sample went through the pre-processing, both deletions and the merge
\* (which merged the two rows of A and dropped two rows) and the AI URL test
\* answered, while the main display still shows the five rows of the workbook
C18_Witness ==
  /\ Len(preprocessedTestDataForTable) = 5
  /\ Len(mergedTestDataForTable) = 2
  /\ Len(aiTestedDataForTable) = 2
  /\ Len(displayData.table) = 5
  /\ csvData = displayData.table

(***************************************************************************)
(* Termination of the full URL run                                         *)
(***************************************************************************)
\* the batch was not called, succeeded, or gave up after its last attempt
BatchSettled(f, b) ==
  \/ /\ b \notin BatchesToLookUp(f.dataRows, TotalBatches(Len(f.dataRows)))
     /\ f.generateContentCalls[b] = 0
  \/ /\ \A k \in 1..Len(f.runSkippedBatchNumbersLocal) : f.runSkippedBatchNumbersLocal[k] # b
     /\ f.generateContentCalls[b] \in 1..(MAX_RETRIES + 1)
  \/ /\ \E k \in 1..Len(f.runSkippedBatchNumbersLocal) : f.runSkippedBatchNumbersLocal[k] = b
     /\ f.generateContentCalls[b] = MAX_RETRIES + 1

UrlRunStarted == findUrls.pc # "idle" /\ isLoading

UrlRunOver ==
  /\ findUrls.pc = "idle"
  /\ ~isLoading
  /\ currentOperationStats.status \in {"completed", "error"}

C20_CleanerIdempotent ==
  opsLeft < MaxOps =>
    aiTestedDataForTable = cleanAiNotFoundResponses(preprocessedTestDataForTable)

\* the cleaner was applied twice to a table in which it emptied the URL cell
\* of a data row whose next cell holds a placeholder too
C20_Witness ==
  /\ opsLeft = MaxOps - 2
  /\ \E k \in 2..Len(preprocessedTestDataForTable) :
       /\ Len(preprocessedTestDataForTable[k]) = 4
       /\ preprocessedTestDataForTable[k][3] \in NotFoundCells
       /\ preprocessedTestDataForTable[k][4] \in NotFoundCells
       /\ aiTestedDataForTable[k] = [preprocessedTestDataForTable[k] EXCEPT ![3] = ""]

(***************************************************************************)
(* Properties of isPlausibleUrl                                            *)
(***************************************************************************)
\* the four ways a URL fails, on the characters of the trimmed string
FailsPlausibility(trimmedUrl) ==
  \/ trimmedUrl = <<>>
  \/ \A k \in 1..Len(trimmedUrl) : trimmedUrl[k] # "."
  \/ /\ \E k \in 1..Len(trimmedUrl) : trimmedUrl[k] = "@"
     /\ \E d \in 1..Len(GENERIC_EMAIL_DOMAINS) :
          EndsWith(trimmedUrl, GENERIC_EMAIL_DOMAINS[d])
  \/ \E d \in 1..Len(GENERIC_EMAIL_DOMAINS) :
       normalizeUrlForComparison(trimmedUrl) = GENERIC_EMAIL_DOMAINS[d]

\* the first batch of the run has decided about its only row
RowDecided ==
  /\ findUrls.pc = "loop"
  /\ findUrls.i = 0
  /\ findUrls'.pc = "countTokens" \/ findUrls'.i = 1

\* C21: isPlausibleUrl gives a value for every string, the same value each
\* time, and the value is false exactly when the trimmed string is empty, has
\* no '.', has an '@' and ends with a generic e-mail domain, or equals a
\* generic domain after normalization; '', 'gmail.com' and 'user@gmail.com'
\* are not plausible and 'example.com' is.
C21_PlausibleUrl ==
  [][ RowDecided =>
        LET url == Cell(findUrls.dataRows[1], 2)
        IN  /\ isPlausibleUrl(url) \in BOOLEAN
            /\ isPlausibleUrl(url) <=> ~FailsPlausibility(Trim(CharsOf(url)))
            \* a row is looked up exactly when its URL is not plausible
            /\ (findUrls'.pc = "countTokens") <=> ~isPlausibleUrl(url)
            /\ url \in {"", "gmail.com", "user@gmail.com"} => findUrls'.pc = "countTokens"
            /\ url = "example.com" => findUrls'.i = 1 ]_vars

\* the run has passed the row with the URL ' HTTP://www.Gmail.Com/ ' on to
\* the lookup: the URL is a generic domain after normalization
C21_Witness ==
  /\ findUrls.pc = "countTokens"
  /\ Len(findUrls.dataRows) = 1
  /\ Cell(findUrls.dataRows[1], 2) = " HTTP://www.Gmail.Com/ "

(***************************************************************************)
(* Properties of the token counts                                          *)
(***************************************************************************)
\* C22: the tokens of a request are counted once per submitted unit, before
\* the retry loop and whatever the number of attempts: in the URL run once
\* per batch that has a row to look up, in the dossier run once per row that
\* has a name; the input tokens grow by the counted value at that step and
\* by nothing at the attempts.
C22_RequestCountedOnce ==
  [][ /\ \A b \in 1..Len(findUrls'.countTokensCalls) : findUrls'.countTokensCalls[b] <= 1
      /\ \A r \in 1..Len(fullDossier'.countTokensCalls) : fullDossier'.countTokensCalls[r] <= 1
      \* the count comes before the first attempt of the unit
      /\ \A b \in 1..Len(findUrls'.generateContentCalls) :
           findUrls'.generateContentCalls[b] > 0 => findUrls'.countTokensCalls[b] = 1
      /\ \A r \in 1..Len(fullDossier'.generateContentCalls) :
           fullDossier'.generateContentCalls[r] > 0 => fullDossier'.countTokensCalls[r] = 1
      \* the step that counts adds the counted value
      /\ (findUrls.pc = "countTokens" /\ findUrls'.pc = "generateContent") =>
           \E batchInputTokens \in PromptTokenCounts :
             /\ findUrls'.currentRunOpInputTokens =
                  findUrls.currentRunOpInputTokens + batchInputTokens
             /\ currentOperationStats'.inputTokens = findUrls'.currentRunOpInputTokens
      /\ (fullDossier.pc = "countTokens" /\ fullDossier'.pc = "generateContent") =>
           \E inputTokens \in PromptTokenCounts :
             /\ fullDossier'.opTokensForCall.input = inputTokens
             /\ currentOperationStats'.inputTokens =
                  currentOperationStats.inputTokens + inputTokens
      \* an attempt adds nothing
      /\ findUrls.pc = "generateContent" =>
           findUrls'.currentRunOpInputTokens = findUrls.currentRunOpInputTokens
      /\ (fullDossier.pc = "generateContent" /\ fullDossier' # fullDossier) =>
           currentOperationStats'.inputTokens = currentOperationStats.inputTokens
      \* at the end every unit that was submitted was counted once, the others never
      /\ UrlRunEnds =>
           \A b \in 1..TotalBatches(Len(findUrls.dataRows)) :
             findUrls.countTokensCalls[b] =
               (IF b \in BatchesToLookUp(findUrls.dataRows,
                                         TotalBatches(Len(findUrls.dataRows)))
                  THEN 1 ELSE 0)
      /\ DossierRunEnds =>
           \A r \in 1..Len(fullDossier.dataRows) :
             fullDossier.countTokensCalls[r] =
               (IF HasNoOrgName(fullDossier.dataRows[r]) THEN 0 ELSE 1) ]_vars

\* a row of a dossier run was called twice after one count of its request;
\* the row got its URL from a URL run that counted its only batch once (3
\* tokens) and whose batch succeeded at a retry (no request counted for it)
C22_Witness ==
  /\ fullDossier.pc = "loop"
  /\ fullDossier.i = 1
  /\ fullDossier.generateContentCalls[1] = 2
  /\ fullDossier.countTokensCalls[1] = 1
  /\ fullDossier.dataRows = << <<"A", "", "a.com">> >>
  /\ totalInputTokens = 3
  /\ totalApiRequestsMade = 0
  /\ skippedBatchNumbers = <<>>

\* the batch in progress ends in this step without giving up
BatchSucceeds ==
  /\ findUrls.pc = "generateContent"
  /\ findUrls'.i = findUrls.i + 1
  /\ findUrls'.runSkippedBatchNumbersLocal = findUrls.runSkippedBatchNumbersLocal

\* C23: in the full URL run the output tokens of a response are added to the
\* run's output tokens only at the attempt on which the batch succeeds; an
\* attempt that fails, also after its response arrived (text that is no JSON,
\* a wrong number of rows), adds none, so that a batch adds at most once.
C23_OutputCountedOnSuccessOnly ==
  [][ findUrls.pc = "generateContent" =>
        IF BatchSucceeds
          THEN \E batchOutputTokens \in ResponseTokenCounts :
                 findUrls'.currentRunOpOutputTokens =
                   findUrls.currentRunOpOutputTokens + batchOutputTokens
          ELSE findUrls'.currentRunOpOutputTokens = findUrls.currentRunOpOutputTokens ]_vars

(***************************************************************************)
(* Properties of the response parsing                                      *)
(***************************************************************************)
\* the candidate texts of a response in the order of the three strategies:
\* the content of the fence, the text from the first '[' to the last ']',
\* the text itself
ParseCandidates(text) ==
  (IF MatchesFence(text) THEN <<SubSeq(text, 2, Len(text) - 1)>> ELSE <<>>)
    \o (IF FirstBracket(text) # 0 /\ LastBracket(text) > FirstBracket(text)
          THEN <<SubSeq(text, FirstBracket(text), LastBracket(text))>> ELSE <<>>)
    \o <<text>>

\* C24: the parsing of a response succeeds whenever one of its candidate
\* texts (fence content, bracketed substring, raw text) is valid JSON, and
\* then with the first valid one in this order; it fails when none is.
C24_FirstValidCandidateWins ==
  currentOperationStats.status # "running" =>
    LET candidates == ParseCandidates(detailedDescriptionTestOutput)
        valid == {k \in 1..Len(candidates) : ValidJson(candidates[k])}
    IN  IF valid = {}
          THEN currentOperationStats.status = "error"
          ELSE /\ currentOperationStats.status = "completed"
               /\ aiTestedDataForTable =
                    <<candidates[CHOOSE k \in valid : \A m \in valid : k <= m]>>


(***************************************************************************)
(* The merge of duplicate organizations on its own                         *)
(***************************************************************************)
\* names that differ by case only, another name, and no name
MergeNames == {"A", "a", "B", ""}
\* URL cells: none, not plausible (9 and 14 characters), plausible (8 and 11)
MergeUrls == {"", "gmail.com", "user@gmail.com", "good.com", "example.com"}
MergeRows == {<<name, "", url>> : name \in MergeNames, url \in MergeUrls}
MergeTables == UNION {[1..n -> MergeRows] : n \in 1..MaxMergeRows}

\* the page showing a table that was loaded
InitMerge ==
  \E rows \in MergeTables :
    PageShowing(<<HeaderRow>> \o rows, initialCurrentOperationStats, <<>>, <<>>)

NextMerge == handleMergeDuplicatesTest

SpecMerge == InitMerge /\ [][NextMerge]_vars

(***************************************************************************)
(* findUrlsWithAiLogic of src/test_runner_step5.ts                         *)
(*                                                                         *)
(* The runner keeps its state in globals named after the page's state:     *)
(* test_displayData is held in csvData and displayData,                    *)
(* test_currentOperationStats in currentOperationStats, and so on, with    *)
(* test_cumulativeEstimatedCost in estimatedCost.  Its rows have the name  *)
(* in column 0 and the URL in column 1.                                    *)
(***************************************************************************)
BATCH_SIZE_FOR_AI_TEST == 10

\* GENERIC_EMAIL_DOMAINS of the runner: gmail, yahoo, outlook, hotmail
step5GenericEmailDomains ==
  <<GENERIC_EMAIL_DOMAINS[1], GENERIC_EMAIL_DOMAINS[2], GENERIC_EMAIL_DOMAINS[3],
    GENERIC_EMAIL_DOMAINS[5]>>

step5IsPlausibleUrl(url) ==
  LET trimmedUrl == Trim(url)
  IN  IF trimmedUrl = <<>> THEN FALSE
      ELSE IF ~Includes(trimmedUrl, ".") THEN FALSE
      ELSE IF Includes(trimmedUrl, "@")
              /\ \E d \in 1..Len(step5GenericEmailDomains) :
                    EndsWith(trimmedUrl, step5GenericEmailDomains[d]) THEN FALSE
      ELSE IF \E d \in 1..Len(step5GenericEmailDomains) :
                    normalizeUrlForComparison(trimmedUrl) = step5GenericEmailDomains[d]
        THEN FALSE
      ELSE TRUE

\* the runner's cleanAiNotFoundResponses, on the URL cell of a response row:
\* six placeholders, the first six of the page's list
step5CleanedUrl(cellValue) ==
  IF /\ Trim(CharsOf(cellValue)) # <<>>
     /\ \E p \in 1..6 : notFoundPlaceholders[p] = ToLowerCase(Trim(CharsOf(cellValue)))
    THEN "" ELSE cellValue

\* the runner's calculateOperationCost for 'flash': no free requests
step5OperationCost(inputTokens, outputTokens, apiRequests) ==
  inputTokens * FLASH_PRICE_INPUT_PER_MILLION_TOKENS
    + outputTokens * FLASH_PRICE_OUTPUT_THINKING_PER_MILLION_TOKENS
    + apiRequests * FLASH_PRICE_GROUNDING_PER_THOUSAND_REQUESTS_AFTER_FREE_TIER * 100000

\* mockGenAIFullRun.generateContent: a URL for the names that hold an odd digit
mockFoundUrl(orgName) ==
  LET name == CharsOf(orgName)
      IsNoSpace(c) == c # " "
  IN  IF \E k \in 1..Len(name) : name[k] \in {"1", "3", "5", "7", "9"}
        THEN StringOf(ToLowerCase(SelectSeq(name, IsNoSpace)) \o <<".", "c", "o", "m">>)
        ELSE ""

step5NeedsAi(row) == ~step5IsPlausibleUrl(CharsOf(Cell(row, 1)))

\* originalRow[1] = aiProcessedRowsInThisBatch[k_idx][1]
step5Looked(row) == [PadRow(row, 2) EXCEPT ![2] = step5CleanedUrl(mockFoundUrl(Cell(row, 0)))]

\* finalReconstructedData: the rows that were submitted, then the rows whose
\* lower-cased name is not the name of a submitted row
step5Reconstructed(data) ==
  LET headerRow == data[1]
      dataRows == Tail(data)
      rowsThatNeedAi == SelectSeq(dataRows, step5NeedsAi)
      processedOrgNames ==
        {ToLowerCase(CharsOf(Cell(rowsThatNeedAi[k], 0))) : k \in 1..Len(rowsThatNeedAi)}
      IsUnprocessed(row) == ToLowerCase(CharsOf(Cell(row, 0))) \notin processedOrgNames
  IN  <<headerRow>>
        \o [k \in 1..Len(rowsThatNeedAi) |-> step5Looked(rowsThatNeedAi[k])]
        \o SelectSeq(dataRows, IsUnprocessed)

\* Math.ceil(rowsThatNeedAi.length / BATCH_SIZE_FOR_AI_TEST)
step5TotalBatches(data) ==
  (Len(SelectSeq(Tail(data), step5NeedsAi)) + BATCH_SIZE_FOR_AI_TEST - 1)
    \div BATCH_SIZE_FOR_AI_TEST

\* The whole run.  forceErrorOnBatch makes the mock throw once, on the call
\* with that number within a batch; MAX_RETRIES is 1, so only a throw on the
\* first call of the first batch happens, the retry succeeds, and no batch
\* is skipped.  Output tokens (40 a response) are added for the batches that
\* succeed on their first attempt; every batch counts 70 input tokens and
\* one request, and leaves one grounding chunk named after its last call.
findUrlsWithAiLogic ==
  \E forceErrorOnBatch \in {-1, 1, 2} :
    /\ opsLeft > 0
    /\ opsLeft' = opsLeft - 1
    /\ IF Len(csvData) < 2
         THEN UNCHANGED <<dataVars, runVars, sessionVars>>
         ELSE
           LET totalBatches == step5TotalBatches(csvData)
               retried == IF forceErrorOnBatch = 1 /\ totalBatches > 0 THEN 1 ELSE 0
               inputTokens == 70 * totalBatches
               outputTokens == 40 * (totalBatches - retried)
               cost == step5OperationCost(inputTokens, outputTokens, totalBatches)
           IN  /\ updateDisplayData(step5Reconstructed(csvData))
               /\ skippedBatchNumbers' = <<>>
               /\ aiGroundingSources' =
                    [b \in 1..totalBatches |-> IF b = 1 /\ retried = 1 THEN 2 ELSE 1]
               /\ currentOperationStats' =
                    [operationType |-> "full_url", status |-> "completed",
                     inputTokens |-> inputTokens, outputTokens |-> outputTokens,
                     apiRequests |-> totalBatches, estimatedCost |-> cost,
                     modelUsed |-> "flash",
                     progressMessage |->
                       Message("All URL Batches Processed.", totalBatches, totalBatches)]
               /\ totalInputTokens' = totalInputTokens + inputTokens
               /\ totalOutputTokens' = totalOutputTokens + outputTokens
               /\ totalApiRequestsMade' = totalApiRequestsMade + totalBatches
               /\ estimatedCost' = estimatedCost + cost
    /\ UNCHANGED <<flagVars, testOutVars, procVars, estimateVars, testSectionVars,
                   failuresLeft>>

\* test_displayData before the run: the name, the URL, and the row's number
Step5Names == {"A1", "a1", "B2", ""}
Step5Urls == {"", "gmail.com", "good.com"}
Step5Tables ==
  UNION {[1..n -> Step5Names \X Step5Urls] : n \in 1..MaxStep5Rows}
Step5Header == <<"Organization Name", "Website URL", "Row">>
Step5Data(table) ==
  <<Step5Header>> \o [k \in 1..Len(table) |-> <<table[k][1], table[k][2], ToString(k)>>]

InitStep5 ==
  \E table \in Step5Tables :
    PageShowing(Step5Data(table), initialCurrentOperationStats, <<>>, <<>>)

NextStep5 == findUrlsWithAiLogic

SpecStep5 == InitStep5 /\ [][NextStep5]_vars

(***************************************************************************)
(* The full URL run on its own, on a table that was loaded                 *)
(***************************************************************************)
InitUrlRun ==
  \E table \in FileTables \ {TableHeaderOnly} :
    PageShowing(table, initialCurrentOperationStats, <<>>, <<>>)

NextUrlRun ==
  \/ handleFindUrlsWithAi
  \/ findUrlsBatchHead
  \/ findUrlsCountTokens
  \/ findUrlsAttempt
  \/ findUrlsFinalize

SpecUrlRun == InitUrlRun /\ [][NextUrlRun]_vars

(***************************************************************************)
(* handleFileChange while the page is working                              *)
(***************************************************************************)
NextFileChange == Next \/ fileChangeWhileProcessing

SpecFileChange == Init /\ [][NextFileChange]_vars

\* C25: when handleFileChange runs while a major processing flag is set, the
\* file change is ignored: the dataset, the operation's statistics, the list
\* of skipped batches, the grounding sources and the session's totals all
\* keep their values.
C25_FileChangeIgnoredWhileProcessing ==
  [][fileChangeWhileProcessing =>
       UNCHANGED <<csvData, displayData, currentOperationStats, skippedBatchNumbers,
                   aiGroundingSources, totalInputTokens, totalOutputTokens,
                   totalApiRequestsMade, estimatedCost>>]_vars


\* the data rows the merge test was given, and what it shows
MergeTestInput == Tail(TestSample(csvData))
NameKey(row) == ToLowerCase(TrimmedCell(row, 0))
SameOrganization(rows, k) == {j \in 1..Len(rows) : NameKey(rows[j]) = NameKey(rows[k])}
PlausibleUrlsOf(rows, group) ==
  {url \in {TrimmedCell(rows[j], 2) : j \in group} : isPlausibleChars(url)}
MergedRowsOf(key) ==
  {g \in 2..Len(mergedTestDataForTable) : NameKey(mergedTestDataForTable[g]) = key}

\* C26: for every group of two or more rows sharing an organization name in
\* which at least one row has a plausible URL, the merged row's URL is a
\* plausible URL, the longest plausible one of the group, whatever the order
\* of the rows and the lengths of the URL values that are not plausible.
C26_MergedUrlIsPlausible ==
  mergedTestDataForTable # <<>> =>
    \A k \in 1..Len(MergeTestInput) :
      LET group == SameOrganization(MergeTestInput, k)
          plausible == PlausibleUrlsOf(MergeTestInput, group)
      IN  (NameKey(MergeTestInput[k]) # <<>> /\ Cardinality(group) >= 2 /\ plausible # {})
            => \E g \in MergedRowsOf(NameKey(MergeTestInput[k])) :
                 /\ TrimmedCell(mergedTestDataForTable[g], 2) \in plausible
                 /\ \A url \in plausible :
                      Len(url) <= Len(TrimmedCell(mergedTestDataForTable[g], 2))

\* the row appears in the merged table, padded to the table's width
AppearsMerged(row) ==
  \E g \in 2..Len(mergedTestDataForTable) :
    mergedTestDataForTable[g] = PadRow(row, Len(mergedTestDataForTable[g]))

\* C30: the merge never discards a row that has no duplicate: every input
\* row whose organization name is shared with no other row, rows with an
\* empty name cell included, appears in the output, and the number of rows
\* after the merge is the number of distinct non-empty names plus the number
\* of rows without a name.
C30_MergeKeepsUnduplicatedRows ==
  mergedTestDataForTable # <<>> =>
    LET named == {k \in 1..Len(MergeTestInput) : NameKey(MergeTestInput[k]) # <<>>}
    IN  /\ \A k \in 1..Len(MergeTestInput) :
              (k \notin named \/ Cardinality(SameOrganization(MergeTestInput, k)) = 1)
                => AppearsMerged(MergeTestInput[k])
        /\ Len(mergedTestDataForTable) - 1 =
             Cardinality({NameKey(MergeTestInput[k]) : k \in named})
               + (Len(MergeTestInput) - Cardinality(named))


\* the row numbers (column 2) of the data rows of a table of the runner
Step5RowNumbers(data) == [k \in 1..(Len(data) - 1) |-> Cell(data[k + 1], 2)]

\* C27: the URL run of the runner returns all input data rows in their
\* original relative order with only URL cells changed: rows that needed a
\* lookup and rows that did not stay interleaved as in the input, and no row
\* is dropped or duplicated.
C27_Step5KeepsRowsInOrder ==
  [][(findUrlsWithAiLogic /\ Len(csvData) >= 2) =>
       /\ Len(csvData') = Len(csvData)
       /\ Step5RowNumbers(csvData') = Step5RowNumbers(csvData)
       /\ \A k \in 2..Len(csvData) : Cell(csvData'[k], 0) = Cell(csvData[k], 0)]_vars


\* an attempt that merges a response and ends its batch
SuccessfulMerge ==
  /\ findUrlsAttempt
  /\ findUrls'.i = findUrls.i + 1
  /\ findUrls'.runSkippedBatchNumbersLocal = findUrls.runSkippedBatchNumbersLocal

\* the rows the attempt appended for the batch
MergedChunk ==
  SubSeq(findUrls'.allProcessedDataRows,
         Len(findUrls'.allProcessedDataRows) - Len(CurrentChunk(findUrls)) + 1,
         Len(findUrls'.allProcessedDataRows))

\* the cleaned response rows (without the header) agree with the merged URL
\* cells, position by position of the submission
TakenFrom(response, items) ==
  /\ response.json = "rows"
  /\ Len(response.rows) = Len(items) + 1
  /\ \A m \in 1..Len(items) :
       Cell(MergedChunk[items[m].originalIndexInChunk + 1], 2)
         = Cell(Tail(cleanAiNotFoundResponses(response.rows))[m], 2)

C29_OutputHasInputRowCount ==
  [][findUrlsFinalize =>
       /\ Len(findUrls.allProcessedDataRows) = Len(findUrls.dataRows)
       /\ Len(csvData') = Len(findUrls.dataRows) + 1]_vars

====
